---- MODULE Spec2Model ----
(***************************************************************************)
(* Model of the distributed, block-structured flow solver:                 *)
(*   - the job life cycle on the workers (decomposition, scatter of the    *)
(*     blocks, ghost fill in three phases, gather of the solution);        *)
(*   - the cell-level inter-block slice swap (geometry and state).         *)
(* Ranks, block numbers and array indices are 0-based as in the source;    *)
(* TLA+ sequences are 1-based, so element n of a C++ vector is seq[n+1].   *)
(***************************************************************************)
EXTENDS Integers, Sequences, FiniteSets, TLC

\* ------------------------------------------------------------------------
\* Bounds of the model
\* ------------------------------------------------------------------------
\* largest number of iterations requested of the solver driver
MaxIter == 1
\* swap study: cells of a patch along its first and second direction, and
\* cells of a block along the normal of the patch
PatchLen1 == 1
PatchLen2 == 2
BlockDepth == 2

\* ------------------------------------------------------------------------
\* Program constants
\* ------------------------------------------------------------------------
\* rank of the coordinator
ROOT == 0
\* message tag of a scattered block
BlockTag == 2
\* message tag of a state slice exchanged by two workers
SliceTag == 1
\* number of ghost layers on every face of a block
NumGhosts == 2

\* the workers of the job (MPI ranks)
Procs == {0, 1, 2}
NumProcs == Cardinality(Procs)

VARIABLES
  cfg,          \* the run's inputs: number of blocks, decomposition, iterations
  grid,         \* the coordinator's full vector of blocks
  conn,         \* the coordinator's vector of inter-block records
  loadBal,      \* number of blocks per worker, result of the decomposition
  err,          \* diagnostic emitted by a fatal error ("none" if none)
  pc,           \* position of every worker in the driver
  ii,           \* loop index of every worker in its current loop
  numProcBlock, \* number of blocks each worker was told to expect
  connL,        \* every worker's copy of the inter-block records
  localBlocks,  \* every worker's vector of local blocks
  chan,         \* messages in flight, one FIFO per (source, destination)
  sending,      \* id of the message a worker's blocking send waits on, or 0
  msgId,        \* number of messages posted so far
  did,          \* per worker: what it did for each record in phase 2
  recvInto,     \* gather: the messages unpacked into each block of the grid
  scen,         \* swap study: the block layout under study
  states,       \* swap study: the blocks (sizes, geometry and state arrays)
  connections,  \* swap study: the inter-block records, with border flags
  order,        \* swap study: order in which the records are swapped
  phase,        \* swap study: "geom", "state" or "done" ("idle" in a job)
  step,         \* swap study: number of records swapped in this phase
  lastPut,      \* swap study: what the last geometry swap visited
  inputVars,    \* block study: the inputs of the study
  block,        \* block study: the arrays of the block under study
  run           \* block study: position, norms and work arrays of the solver

jobVars == <<cfg, grid, conn, loadBal, err, pc, ii, numProcBlock, connL,
             localBlocks, chan, sending, msgId, did, recvInto>>

swapVars == <<scen, states, connections, order, phase, step, lastPut>>

blockVars == <<inputVars, block, run>>

vars == <<jobVars, swapVars, blockVars>>

\* ------------------------------------------------------------------------
\* Helpers on sequences and message queues
\* ------------------------------------------------------------------------
Range(s) == {s[n] : n \in DOMAIN s}

RemoveAt(q, n) == SubSeq(q, 1, n - 1) \o SubSeq(q, n + 1, Len(q))

\* MPI matching: the first message of a queue carrying the tag (0 if none)
FirstWithTag(q, tag) ==
  LET S == {n \in 1..Len(q) : q[n].tag = tag}
  IN IF S = {} THEN 0 ELSE CHOOSE n \in S : \A m \in S : n <= m

\* MPI_Send posts a message on the FIFO from src to dst
Post(ch, src, dst, m) == [ch EXCEPT ![<<src, dst>>] = Append(@, m)]

\* number of blocks of a vector assigned to a rank
CountRank(blocks, r) == Cardinality({n \in 1..Len(blocks) : blocks[n].rank = r})

\* position of block n (1-based) among the blocks of its own rank (0-based)
LocalPos(blocks, n) ==
  Cardinality({m \in 1..(n - 1) : blocks[m].rank = blocks[n].rank})

\* ------------------------------------------------------------------------
\* Inputs of a run
\* ------------------------------------------------------------------------
\* numbers of blocks the grid may have
BlockCounts == {NumProcs - 1, NumProcs}

\* a pre-computed block -> worker assignment: contiguous groups, the first
\* block on the coordinator
GivenAssignments(n) ==
  {a \in [1..n -> Procs] :
     /\ a[1] = ROOT
     /\ \A m \in 1..(n - 1) : a[m] <= a[m + 1]}

Configs ==
  {[nBlocks |-> n, mode |-> "manual", assign |-> [m \in 1..n |-> ROOT],
    numIter |-> it] : n \in BlockCounts, it \in 0..MaxIter}
  \cup
  UNION {{[nBlocks |-> n, mode |-> "given", assign |-> a, numIter |-> it] :
            a \in GivenAssignments(n), it \in 0..MaxIter} : n \in BlockCounts}

\* the inter-block records of a grid of n blocks: every pair of blocks, in
\* lexicographic order; ranks and local positions are filled in later
PairList(n) ==
  LET pairs == {<<a, b>> \in (0..(n - 1)) \X (0..(n - 1)) : a < b}
      RECURSIVE Ord(_)
      Ord(S) == IF S = {} THEN <<>>
                ELSE LET p == CHOOSE x \in S : \A y \in S :
                                 x[1] < y[1] \/ (x[1] = y[1] /\ x[2] <= y[2])
                     IN <<p>> \o Ord(S \ {p})
  IN Ord(pairs)

\* the solution a block carries (one token stands for the whole array)
InitialSol(pos) == 10 + pos

\* procBlock constructor: parent data, global position, rank, local position
NewBlock(pos, r, lpos, nConn) ==
  [globalPos |-> pos, rank |-> r, localPos |-> lpos, sol |-> InitialSol(pos),
   ghost |-> [n \in 1..nConn |-> 0], bc1 |-> FALSE, edge |-> FALSE]

NewInterblock(a, b) ==
  [rank |-> <<0, 0>>, block |-> <<a, b>>, localBlock |-> <<0, 0>>]

InitGrid(c) ==
  LET nConn == Len(PairList(c.nBlocks))
      g0 == [n \in 1..c.nBlocks |-> NewBlock(n - 1, c.assign[n], 0, nConn)]
  IN [n \in 1..c.nBlocks |-> [g0[n] EXCEPT !.localPos = LocalPos(g0, n)]]

InitJob ==
  /\ cfg \in Configs
  /\ grid = InitGrid(cfg)
  /\ conn = [n \in 1..Len(PairList(cfg.nBlocks)) |->
               NewInterblock(PairList(cfg.nBlocks)[n][1],
                             PairList(cfg.nBlocks)[n][2])]
  /\ loadBal = [r \in Procs |-> 0]
  /\ err = "none"
  /\ pc = [r \in Procs |-> IF r = ROOT THEN "decomp" ELSE "scatterNum"]
  /\ ii = [r \in Procs |-> 0]
  /\ numProcBlock = [r \in Procs |-> 0]
  /\ connL = [r \in Procs |-> <<>>]
  /\ localBlocks = [r \in Procs |-> <<>>]
  /\ chan = [p \in Procs \X Procs |-> <<>>]
  /\ sending = [r \in Procs |-> 0]
  /\ msgId = 0
  /\ did = [r \in Procs |-> <<>>]
  /\ recvInto = [n \in 1..cfg.nBlocks |-> <<>>]

\* the swap study is not part of a job
SwapIdle ==
  /\ scen = "none"
  /\ states = <<>>
  /\ connections = <<>>
  /\ order = <<>>
  /\ phase = "idle"
  /\ step = 0
  /\ lastPut = <<>>

\* ------------------------------------------------------------------------
\* Decomposition (coordinator only)
\* ------------------------------------------------------------------------
\* ranks of the two sides of every record, read from the blocks
SetConnRanks(c, g) ==
  [n \in 1..Len(c) |->
     [c[n] EXCEPT !.rank = <<g[c[n].block[1] + 1].rank,
                             g[c[n].block[2] + 1].rank>>]]

\* the decomposition without the loop that sets the ranks
ManualGridNoRank(g) ==
  [n \in 1..Len(g) |-> [g[n] EXCEPT !.globalPos = n - 1]]

\* manual decomposition: block ii goes to rank ii, at global position ii
ManualGrid(g) ==
  [n \in 1..Len(g) |-> [g[n] EXCEPT !.rank = n - 1, !.globalPos = n - 1]]

ManualDecomposition ==
  /\ pc[ROOT] = "decomp"
  /\ cfg.mode = "manual"
  /\ Len(grid) = NumProcs
  /\ grid' = ManualGrid(grid)
  /\ conn' = SetConnRanks(conn, ManualGrid(grid))
  /\ loadBal' = [r \in Procs |-> 1]
  /\ pc' = [pc EXCEPT ![ROOT] = "scatterNum"]
  /\ UNCHANGED <<swapVars, blockVars>>
  /\ UNCHANGED <<cfg, err, ii, numProcBlock, connL, localBlocks, chan,
                 sending, msgId, did, recvInto>>

\* the number of blocks differs from the number of workers: exit(0)
ManualDecompositionMismatch ==
  /\ pc[ROOT] = "decomp"
  /\ cfg.mode = "manual"
  /\ Len(grid) # NumProcs
  /\ err' = "ConfigMismatch"
  /\ pc' = [pc EXCEPT ![ROOT] = "exited"]
  /\ UNCHANGED <<swapVars, blockVars>>
  /\ UNCHANGED <<cfg, grid, conn, loadBal, ii, numProcBlock, connL,
                 localBlocks, chan, sending, msgId, did, recvInto>>

\* a pre-computed assignment: the blocks already carry rank and positions
GivenDecomposition ==
  /\ pc[ROOT] = "decomp"
  /\ cfg.mode = "given"
  /\ conn' = [n \in 1..Len(conn) |->
                [SetConnRanks(conn, grid)[n] EXCEPT
                   !.localBlock = <<grid[conn[n].block[1] + 1].localPos,
                                    grid[conn[n].block[2] + 1].localPos>>]]
  /\ loadBal' = [r \in Procs |-> CountRank(grid, r)]
  /\ pc' = [pc EXCEPT ![ROOT] = "scatterNum"]
  /\ UNCHANGED <<swapVars, blockVars>>
  /\ UNCHANGED <<cfg, grid, err, ii, numProcBlock, connL, localBlocks, chan,
                 sending, msgId, did, recvInto>>

\* ------------------------------------------------------------------------
\* Scatter: block counts, inter-block records, blocks
\* ------------------------------------------------------------------------
\* the coordinator has passed the collective a worker is waiting in
RootPast(places) == pc[ROOT] \notin places /\ err = "none"

\* MPI_Scatter of loadBal, coordinator's side
RootSendNumProcBlocks ==
  /\ pc[ROOT] = "scatterNum"
  /\ numProcBlock' = [numProcBlock EXCEPT ![ROOT] = loadBal[ROOT]]
  /\ pc' = [pc EXCEPT ![ROOT] = "bcastConn"]
  /\ UNCHANGED <<swapVars, blockVars>>
  /\ UNCHANGED <<cfg, grid, conn, loadBal, err, ii, connL, localBlocks, chan,
                 sending, msgId, did, recvInto>>

\* MPI_Scatter of loadBal, worker's side
SendNumProcBlocks(w) ==
  /\ w # ROOT
  /\ pc[w] = "scatterNum"
  /\ RootPast({"decomp", "scatterNum"})
  /\ numProcBlock' = [numProcBlock EXCEPT ![w] = loadBal[w]]
  /\ pc' = [pc EXCEPT ![w] = "bcastConn"]
  /\ UNCHANGED <<swapVars, blockVars>>
  /\ UNCHANGED <<cfg, grid, conn, loadBal, err, ii, connL, localBlocks, chan,
                 sending, msgId, did, recvInto>>

\* MPI_Bcast of the records, coordinator's side
RootSendConnections ==
  /\ pc[ROOT] = "bcastConn"
  /\ connL' = [connL EXCEPT ![ROOT] = conn]
  /\ pc' = [pc EXCEPT ![ROOT] = "sendBlocks"]
  /\ ii' = [ii EXCEPT ![ROOT] = 0]
  /\ UNCHANGED <<swapVars, blockVars>>
  /\ UNCHANGED <<cfg, grid, conn, loadBal, err, numProcBlock, localBlocks,
                 chan, sending, msgId, did, recvInto>>

\* MPI_Bcast of the records, worker's side
SendConnections(w) ==
  /\ w # ROOT
  /\ pc[w] = "bcastConn"
  /\ RootPast({"decomp", "scatterNum", "bcastConn"})
  /\ connL' = [connL EXCEPT ![w] = conn]
  /\ pc' = [pc EXCEPT ![w] = "recvBlocks"]
  /\ ii' = [ii EXCEPT ![w] = 0]
  /\ UNCHANGED <<swapVars, blockVars>>
  /\ UNCHANGED <<cfg, grid, conn, loadBal, err, numProcBlock, localBlocks,
                 chan, sending, msgId, did, recvInto>>

\* SendProcBlocks on the coordinator: a block of its own is kept
RootKeepBlock ==
  /\ pc[ROOT] = "sendBlocks"
  /\ sending[ROOT] = 0
  /\ ii[ROOT] < Len(grid)
  /\ grid[ii[ROOT] + 1].rank = ROOT
  /\ localBlocks' = [localBlocks EXCEPT ![ROOT] = Append(@, grid[ii[ROOT] + 1])]
  /\ ii' = [ii EXCEPT ![ROOT] = @ + 1]
  /\ UNCHANGED <<swapVars, blockVars>>
  /\ UNCHANGED <<cfg, grid, conn, loadBal, err, pc, numProcBlock, connL, chan,
                 sending, msgId, did, recvInto>>

\* SendProcBlocks on the coordinator: a block of another rank is packed and
\* sent to that rank with the block tag
RootSendBlock ==
  /\ pc[ROOT] = "sendBlocks"
  /\ sending[ROOT] = 0
  /\ ii[ROOT] < Len(grid)
  /\ grid[ii[ROOT] + 1].rank # ROOT
  /\ chan' = Post(chan, ROOT, grid[ii[ROOT] + 1].rank,
                  [id |-> msgId + 1, tag |-> BlockTag,
                   body |-> grid[ii[ROOT] + 1]])
  /\ msgId' = msgId + 1
  /\ sending' = [sending EXCEPT ![ROOT] = msgId + 1]
  /\ ii' = [ii EXCEPT ![ROOT] = @ + 1]
  /\ UNCHANGED <<swapVars, blockVars>>
  /\ UNCHANGED <<cfg, grid, conn, loadBal, err, pc, numProcBlock, connL,
                 localBlocks, did, recvInto>>

RootSendBlocksDone ==
  /\ pc[ROOT] = "sendBlocks"
  /\ sending[ROOT] = 0
  /\ ii[ROOT] = Len(grid)
  /\ pc' = [pc EXCEPT ![ROOT] = "iter"]
  /\ UNCHANGED <<swapVars, blockVars>>
  /\ UNCHANGED <<cfg, grid, conn, loadBal, err, ii, numProcBlock, connL,
                 localBlocks, chan, sending, msgId, did, recvInto>>

\* the block a worker builds from a received buffer
UnpackBlock(w, body) == [body EXCEPT !.rank = w, !.localPos = 0]

\* SendProcBlocks on a worker: probe, receive and unpack one block
RecvProcBlock(w) ==
  /\ w # ROOT
  /\ pc[w] = "recvBlocks"
  /\ ii[w] < numProcBlock[w]
  /\ LET n == FirstWithTag(chan[<<ROOT, w>>], BlockTag)
     IN /\ n # 0
        /\ localBlocks' = [localBlocks EXCEPT
                             ![w] = Append(@, UnpackBlock(w, chan[<<ROOT, w>>][n].body))]
        /\ chan' = [chan EXCEPT ![<<ROOT, w>>] = RemoveAt(@, n)]
  /\ ii' = [ii EXCEPT ![w] = @ + 1]
  /\ UNCHANGED <<swapVars, blockVars>>
  /\ UNCHANGED <<cfg, grid, conn, loadBal, err, pc, numProcBlock, connL,
                 sending, msgId, did, recvInto>>

RecvProcBlocksDone(w) ==
  /\ w # ROOT
  /\ pc[w] = "recvBlocks"
  /\ ii[w] = numProcBlock[w]
  /\ pc' = [pc EXCEPT ![w] = "iter"]
  /\ UNCHANGED <<swapVars, blockVars>>
  /\ UNCHANGED <<cfg, grid, conn, loadBal, err, ii, numProcBlock, connL,
                 localBlocks, chan, sending, msgId, did, recvInto>>

\* ------------------------------------------------------------------------
\* Completion of a blocking MPI_Send
\* ------------------------------------------------------------------------
InFlight(id) == \E p \in DOMAIN chan : \E n \in 1..Len(chan[p]) : chan[p][n].id = id

\* the message was received by its target
SendReturnMatched(w) ==
  /\ sending[w] # 0
  /\ ~InFlight(sending[w])
  /\ sending' = [sending EXCEPT ![w] = 0]
  /\ UNCHANGED <<swapVars, blockVars>>
  /\ UNCHANGED <<cfg, grid, conn, loadBal, err, pc, ii, numProcBlock, connL,
                 localBlocks, chan, msgId, did, recvInto>>

\* the message was buffered by the message layer
SendReturnBuffered(w) ==
  /\ sending[w] # 0
  /\ InFlight(sending[w])
  /\ sending' = [sending EXCEPT ![w] = 0]
  /\ UNCHANGED <<swapVars, blockVars>>
  /\ UNCHANGED <<cfg, grid, conn, loadBal, err, pc, ii, numProcBlock, connL,
                 localBlocks, chan, msgId, did, recvInto>>


\* ------------------------------------------------------------------------
\* Solver driver: iterations, then the gather of the solution
\* ------------------------------------------------------------------------
\* an iteration starts with the ghost fill
IterationBegin(w) ==
  /\ pc[w] = "iter"
  /\ cfg.numIter > 0
  /\ pc' = [pc EXCEPT ![w] = "bc1"]
  /\ ii' = [ii EXCEPT ![w] = 0]
  /\ UNCHANGED <<swapVars, blockVars>>
  /\ UNCHANGED <<cfg, grid, conn, loadBal, err, numProcBlock, connL,
                 localBlocks, chan, sending, msgId, did, recvInto>>

\* no iteration is left: the solution is gathered on the coordinator
GatherBegin(w) ==
  /\ pc[w] = "iter"
  /\ cfg.numIter = 0
  /\ pc' = [pc EXCEPT ![w] = "gather"]
  /\ ii' = [ii EXCEPT ![w] = 0]
  /\ UNCHANGED <<swapVars, blockVars>>
  /\ UNCHANGED <<cfg, grid, conn, loadBal, err, numProcBlock, connL,
                 localBlocks, chan, sending, msgId, did, recvInto>>

\* ------------------------------------------------------------------------
\* GetBoundaryConditions: the ghost fill of one worker
\* ------------------------------------------------------------------------
\* phase 1: physical boundary conditions of one local block
AssignInviscidGhostCells(w) ==
  /\ pc[w] = "bc1"
  /\ ii[w] < Len(localBlocks[w])
  /\ localBlocks' = [localBlocks EXCEPT ![w][ii[w] + 1].bc1 = TRUE]
  /\ ii' = [ii EXCEPT ![w] = @ + 1]
  /\ UNCHANGED <<swapVars, blockVars>>
  /\ UNCHANGED <<cfg, grid, conn, loadBal, err, pc, numProcBlock, connL, chan,
                 sending, msgId, did, recvInto>>

\* the first loop left one block short
PhysicalPassDoneOneShort(w) ==
  /\ pc[w] = "bc1"
  /\ ii[w] >= Len(localBlocks[w]) - 1
  /\ pc' = [pc EXCEPT ![w] = "bc2"]
  /\ ii' = [ii EXCEPT ![w] = 0]
  /\ did' = [did EXCEPT ![w] = <<>>]
  /\ UNCHANGED <<swapVars, blockVars>>
  /\ UNCHANGED <<cfg, grid, conn, loadBal, err, numProcBlock, connL,
                 localBlocks, chan, sending, msgId, recvInto>>

\* end of the first loop
PhysicalPassDone(w) ==
  /\ pc[w] = "bc1"
  /\ ii[w] = Len(localBlocks[w])
  /\ pc' = [pc EXCEPT ![w] = "bc2"]
  /\ ii' = [ii EXCEPT ![w] = 0]
  /\ did' = [did EXCEPT ![w] = <<>>]
  /\ UNCHANGED <<swapVars, blockVars>>
  /\ UNCHANGED <<cfg, grid, conn, loadBal, err, numProcBlock, connL,
                 localBlocks, chan, sending, msgId, recvInto>>

\* the record the worker's second loop is at
CurConn(w) == connL[w][ii[w] + 1]

\* Route with the branch of the second side lost
RouteFirstSideOnly(c, rank) ==
  IF c.rank[1] = rank /\ c.rank[2] = rank THEN "inproc"
  ELSE IF c.rank[1] = rank THEN "mpiFirst"
  ELSE "none"

\* how GetBoundaryConditions routes a record on the worker of a rank
Route(c, rank) ==
  IF c.rank[1] = rank /\ c.rank[2] = rank THEN "inproc"
  ELSE IF c.rank[1] = rank THEN "mpiFirst"
  ELSE IF c.rank[2] = rank THEN "mpiSecond"
  ELSE "none"

\* phase 2, both sides on this worker: each block gets the other's slice
SwapStateSlice(w) ==
  /\ pc[w] = "bc2"
  /\ ii[w] < Len(connL[w])
  /\ Route(CurConn(w), w) = "inproc"
  /\ LET c == CurConn(w)
         b1 == c.localBlock[1] + 1
         b2 == c.localBlock[2] + 1
         s1 == localBlocks[w][b1].sol
         s2 == localBlocks[w][b2].sol
     IN localBlocks' = [localBlocks EXCEPT ![w] =
                          [n \in 1..Len(@) |->
                             IF n = b1 THEN [@[n] EXCEPT !.ghost[ii[w] + 1] = s2]
                             ELSE IF n = b2 THEN [@[n] EXCEPT !.ghost[ii[w] + 1] = s1]
                             ELSE @[n]]]
  /\ did' = [did EXCEPT ![w] = Append(@, "inproc")]
  /\ ii' = [ii EXCEPT ![w] = @ + 1]
  /\ UNCHANGED <<swapVars, blockVars>>
  /\ UNCHANGED <<cfg, grid, conn, loadBal, err, pc, numProcBlock, connL, chan,
                 sending, msgId, recvInto>>

\* the local block of a record that has one side on this worker, and the peer
LocalSide(c, rank) == IF Route(c, rank) = "mpiFirst" THEN 1 ELSE 2
PeerRank(c, rank) == c.rank[3 - LocalSide(c, rank)]

\* phase 2, one side on this worker: the local slice is packed and offered
\* to the peer (first half of the send-receive)
SwapSliceMPI(w) ==
  /\ pc[w] = "bc2"
  /\ ii[w] < Len(connL[w])
  /\ Route(CurConn(w), w) \in {"mpiFirst", "mpiSecond"}
  /\ LET c == CurConn(w)
         b == c.localBlock[LocalSide(c, w)] + 1
     IN chan' = Post(chan, w, PeerRank(c, w),
                     [id |-> msgId + 1, tag |-> SliceTag,
                      body |-> localBlocks[w][b].sol])
  /\ msgId' = msgId + 1
  /\ pc' = [pc EXCEPT ![w] = "bc2recv"]
  /\ UNCHANGED <<swapVars, blockVars>>
  /\ UNCHANGED <<cfg, grid, conn, loadBal, err, ii, numProcBlock, connL,
                 localBlocks, sending, did, recvInto>>

\* second half of the send-receive: the peer's slice arrives and is put
\* into the local block
PackSwapUnpackMPI(w) ==
  /\ pc[w] = "bc2recv"
  /\ LET c == CurConn(w)
         b == c.localBlock[LocalSide(c, w)] + 1
         q == chan[<<PeerRank(c, w), w>>]
         n == FirstWithTag(q, SliceTag)
     IN /\ n # 0
        /\ localBlocks' = [localBlocks EXCEPT
                             ![w][b].ghost[ii[w] + 1] = q[n].body]
        /\ chan' = [chan EXCEPT ![<<PeerRank(c, w), w>>] = RemoveAt(@, n)]
  /\ did' = [did EXCEPT ![w] = Append(@, "mpi")]
  /\ ii' = [ii EXCEPT ![w] = @ + 1]
  /\ pc' = [pc EXCEPT ![w] = "bc2"]
  /\ UNCHANGED <<swapVars, blockVars>>
  /\ UNCHANGED <<cfg, grid, conn, loadBal, err, numProcBlock, connL, sending,
                 msgId, recvInto>>

\* phase 2, no side on this worker: move on to the next record
SkipConnection(w) ==
  /\ pc[w] = "bc2"
  /\ ii[w] < Len(connL[w])
  /\ Route(CurConn(w), w) = "none"
  /\ did' = [did EXCEPT ![w] = Append(@, "none")]
  /\ ii' = [ii EXCEPT ![w] = @ + 1]
  /\ UNCHANGED <<swapVars, blockVars>>
  /\ UNCHANGED <<cfg, grid, conn, loadBal, err, pc, numProcBlock, connL,
                 localBlocks, chan, sending, msgId, recvInto>>

\* the second loop with its bound one record short
SwapPassDoneOneShort(w) ==
  /\ pc[w] = "bc2"
  /\ ii[w] >= Len(connL[w]) - 1
  /\ pc' = [pc EXCEPT ![w] = "bc3"]
  /\ ii' = [ii EXCEPT ![w] = 0]
  /\ UNCHANGED <<swapVars, blockVars>>
  /\ UNCHANGED <<cfg, grid, conn, loadBal, err, numProcBlock, connL,
                 localBlocks, chan, sending, msgId, did, recvInto>>

\* end of the second loop
SwapPassDone(w) ==
  /\ pc[w] = "bc2"
  /\ ii[w] = Len(connL[w])
  /\ pc' = [pc EXCEPT ![w] = "bc3"]
  /\ ii' = [ii EXCEPT ![w] = 0]
  /\ UNCHANGED <<swapVars, blockVars>>
  /\ UNCHANGED <<cfg, grid, conn, loadBal, err, numProcBlock, connL,
                 localBlocks, chan, sending, msgId, did, recvInto>>

\* phase 3: edge ghosts of one local block; the function ends by printing
\* the state array and calling exit(0)
AssignInviscidGhostCellsEdge(w) ==
  /\ pc[w] = "bc3"
  /\ ii[w] < Len(localBlocks[w])
  /\ localBlocks' = [localBlocks EXCEPT ![w][ii[w] + 1].edge = TRUE]
  /\ pc' = [pc EXCEPT ![w] = "exited"]
  /\ UNCHANGED <<swapVars, blockVars>>
  /\ UNCHANGED <<cfg, grid, conn, loadBal, err, ii, numProcBlock, connL, chan,
                 sending, msgId, did, recvInto>>

\* end of the third loop: GetBoundaryConditions returns to the driver, which
\* goes on with the fluxes
GetBoundaryConditions(w) ==
  /\ pc[w] = "bc3"
  /\ ii[w] = Len(localBlocks[w])
  /\ pc' = [pc EXCEPT ![w] = "flux"]
  /\ UNCHANGED <<swapVars, blockVars>>
  /\ UNCHANGED <<cfg, grid, conn, loadBal, err, ii, numProcBlock, connL,
                 localBlocks, chan, sending, msgId, did, recvInto>>

\* ------------------------------------------------------------------------
\* GetProcBlocks: gather of the solution on the coordinator
\* ------------------------------------------------------------------------
\* number of coordinator blocks among the first n blocks of the grid
LocNum(n) == Cardinality({m \in 1..n : grid[m].rank = ROOT})

\* a block of the coordinator is copied from its local vector
RootGatherLocal ==
  /\ pc[ROOT] = "gather"
  /\ ii[ROOT] < Len(grid)
  /\ grid[ii[ROOT] + 1].rank = ROOT
  /\ grid' = [grid EXCEPT ![ii[ROOT] + 1] = localBlocks[ROOT][LocNum(ii[ROOT]) + 1]]
  /\ ii' = [ii EXCEPT ![ROOT] = @ + 1]
  /\ UNCHANGED <<swapVars, blockVars>>
  /\ UNCHANGED <<cfg, conn, loadBal, err, pc, numProcBlock, connL, localBlocks,
                 chan, sending, msgId, did, recvInto>>

\* a block of another rank is probed for by (rank, global position),
\* received and unpacked into the block
RecvUnpackSol ==
  /\ pc[ROOT] = "gather"
  /\ ii[ROOT] < Len(grid)
  /\ grid[ii[ROOT] + 1].rank # ROOT
  /\ LET blk == grid[ii[ROOT] + 1]
         q == chan[<<blk.rank, ROOT>>]
         n == FirstWithTag(q, blk.globalPos)
     IN /\ n # 0
        /\ grid' = [grid EXCEPT ![ii[ROOT] + 1].sol = q[n].body.sol,
                                ![ii[ROOT] + 1].ghost = q[n].body.ghost]
        /\ recvInto' = [recvInto EXCEPT ![ii[ROOT] + 1] =
                          Append(@, [id |-> q[n].id, from |-> blk.rank,
                                     tag |-> q[n].tag,
                                     pos |-> q[n].body.globalPos])]
        /\ chan' = [chan EXCEPT ![<<blk.rank, ROOT>>] = RemoveAt(@, n)]
  /\ ii' = [ii EXCEPT ![ROOT] = @ + 1]
  /\ UNCHANGED <<swapVars, blockVars>>
  /\ UNCHANGED <<cfg, conn, loadBal, err, pc, numProcBlock, connL, localBlocks,
                 sending, msgId, did>>

\* the send tagged with the position in the local vector instead
PackSendSolLocalTag(w) ==
  /\ w # ROOT
  /\ pc[w] = "gather"
  /\ sending[w] = 0
  /\ ii[w] < Len(localBlocks[w])
  /\ chan' = Post(chan, w, ROOT,
                  [id |-> msgId + 1, tag |-> ii[w],
                   body |-> localBlocks[w][ii[w] + 1]])
  /\ msgId' = msgId + 1
  /\ sending' = [sending EXCEPT ![w] = msgId + 1]
  /\ ii' = [ii EXCEPT ![w] = @ + 1]
  /\ UNCHANGED <<swapVars, blockVars>>
  /\ UNCHANGED <<cfg, grid, conn, loadBal, err, pc, numProcBlock, connL,
                 localBlocks, did, recvInto>>

\* a worker packs a local block and sends it tagged with its global position
PackSendSol(w) ==
  /\ w # ROOT
  /\ pc[w] = "gather"
  /\ sending[w] = 0
  /\ ii[w] < Len(localBlocks[w])
  /\ chan' = Post(chan, w, ROOT,
                  [id |-> msgId + 1, tag |-> localBlocks[w][ii[w] + 1].globalPos,
                   body |-> localBlocks[w][ii[w] + 1]])
  /\ msgId' = msgId + 1
  /\ sending' = [sending EXCEPT ![w] = msgId + 1]
  /\ ii' = [ii EXCEPT ![w] = @ + 1]
  /\ UNCHANGED <<swapVars, blockVars>>
  /\ UNCHANGED <<cfg, grid, conn, loadBal, err, pc, numProcBlock, connL,
                 localBlocks, did, recvInto>>

\* end of GetProcBlocks on any rank
GetProcBlocks(w) ==
  /\ pc[w] = "gather"
  /\ sending[w] = 0
  /\ ii[w] = (IF w = ROOT THEN Len(grid) ELSE Len(localBlocks[w]))
  /\ pc' = [pc EXCEPT ![w] = "done"]
  /\ UNCHANGED <<swapVars, blockVars>>
  /\ UNCHANGED <<cfg, grid, conn, loadBal, err, ii, numProcBlock, connL,
                 localBlocks, chan, sending, msgId, did, recvInto>>

\* ------------------------------------------------------------------------
\* The job
\* ------------------------------------------------------------------------
\* no block is under study in a job or in the swap study
BlockIdle ==
  /\ inputVars = "none"
  /\ block = "none"
  /\ run = "none"

Init == InitJob /\ SwapIdle /\ BlockIdle

Next ==
  \/ ManualDecomposition
  \/ ManualDecompositionMismatch
  \/ GivenDecomposition
  \/ RootSendNumProcBlocks
  \/ RootSendConnections
  \/ RootKeepBlock
  \/ RootSendBlock
  \/ RootSendBlocksDone
  \/ RootGatherLocal
  \/ RecvUnpackSol
  \/ \E w \in Procs : SendNumProcBlocks(w)
  \/ \E w \in Procs : SendConnections(w)
  \/ \E w \in Procs : RecvProcBlock(w)
  \/ \E w \in Procs : RecvProcBlocksDone(w)
  \/ \E w \in Procs : SendReturnMatched(w)
  \/ \E w \in Procs : SendReturnBuffered(w)
  \/ \E w \in Procs : IterationBegin(w)
  \/ \E w \in Procs : GatherBegin(w)
  \/ \E w \in Procs : AssignInviscidGhostCells(w)
  \/ \E w \in Procs : PhysicalPassDone(w)
  \/ \E w \in Procs : SwapStateSlice(w)
  \/ \E w \in Procs : SwapSliceMPI(w)
  \/ \E w \in Procs : PackSwapUnpackMPI(w)
  \/ \E w \in Procs : SkipConnection(w)
  \/ \E w \in Procs : SwapPassDone(w)
  \/ \E w \in Procs : AssignInviscidGhostCellsEdge(w)
  \/ \E w \in Procs : GetBoundaryConditions(w)
  \/ \E w \in Procs : PackSendSol(w)
  \/ \E w \in Procs : GetProcBlocks(w)

Spec == Init /\ [][Next]_vars

\* every worker runs on its own processor: a step of its code that stays
\* possible is eventually taken.  Buffering of a standard-mode send is not
\* guaranteed by MPI, so SendReturnBuffered is left out.
ProcStep(w) ==
  \/ (w = ROOT /\ \/ ManualDecomposition
                  \/ ManualDecompositionMismatch
                  \/ GivenDecomposition
                  \/ RootSendNumProcBlocks
                  \/ RootSendConnections
                  \/ RootKeepBlock
                  \/ RootSendBlock
                  \/ RootSendBlocksDone
                  \/ RootGatherLocal
                  \/ RecvUnpackSol)
  \/ SendNumProcBlocks(w)
  \/ SendConnections(w)
  \/ RecvProcBlock(w)
  \/ RecvProcBlocksDone(w)
  \/ SendReturnMatched(w)
  \/ IterationBegin(w)
  \/ GatherBegin(w)
  \/ AssignInviscidGhostCells(w)
  \/ PhysicalPassDone(w)
  \/ SwapStateSlice(w)
  \/ SwapSliceMPI(w)
  \/ PackSwapUnpackMPI(w)
  \/ SkipConnection(w)
  \/ SwapPassDone(w)
  \/ AssignInviscidGhostCellsEdge(w)
  \/ GetBoundaryConditions(w)
  \/ PackSendSol(w)
  \/ GetProcBlocks(w)

FairSpec == Spec /\ \A w \in Procs : WF_vars(ProcStep(w))

\* ------------------------------------------------------------------------
\* Properties of the ghost fill
\* ------------------------------------------------------------------------
\* the sides of a record that live on a worker
LocalSides(c, w) == {s \in {1, 2} : c.rank[s] = w}

\* the local block of side s of record number n has the slice of the block
\* on the other side in the ghost cells of that record
HoldsPartnerSlice(w, n, s) ==
  LET c == connL[w][n]
      blk == localBlocks[w][c.localBlock[s] + 1]
  IN /\ blk.globalPos = c.block[s]
     /\ blk.ghost[n] = InitialSol(c.block[3 - s])

\* C1: in phase 2 every worker handles every record of the list by where its
\* two sides live: both on the worker - slices swapped in process, each block
\* gets the other's; exactly one - a send-receive with the peer, the received
\* slice is put into the worker's own block; none - nothing is done to any
\* local block and no error is raised.
C1_PhaseTwoRouting ==
  \A w \in Procs : \A n \in 1..Len(did[w]) :
    LET L == LocalSides(connL[w][n], w)
    IN /\ L = {1, 2} =>
            /\ did[w][n] = "inproc"
            /\ \A s \in L : HoldsPartnerSlice(w, n, s)
       /\ Cardinality(L) = 1 =>
            /\ did[w][n] = "mpi"
            /\ \A s \in L : HoldsPartnerSlice(w, n, s)
       /\ L = {} =>
            /\ did[w][n] = "none"
            /\ \A b \in 1..Len(localBlocks[w]) : localBlocks[w][b].ghost[n] = 0
            /\ err = "none"

\* all three cases have happened, one worker being through the whole list
C1_Witness ==
  /\ \E w \in Procs : /\ Len(connL[w]) > 0
                      /\ Len(did[w]) = Len(connL[w])
                      /\ {"mpi", "none"} \subseteq Range(did[w])
  /\ \E w \in Procs : "inproc" \in Range(did[w])

\* a worker has been through the second loop of the ghost fill
SwapPassComplete(w) == pc[w] \in {"bc3", "flux", "exited"} /\ err = "none"

\* C2 as stated: no worker is in phase 3 before every worker has finished
\* phase 2 for all records.
C2_GlobalBarrier ==
  \A w \in Procs : pc[w] = "bc3" => \A v \in Procs : SwapPassComplete(v)

\* C2 as the code has it: a worker is in phase 3 (or past it) only after it
\* has itself handled every record of the list, its blocks holding the
\* partners' slices; other workers may still be in phase 1 or 2.
C2_OwnSwapsBeforeEdges ==
  \A w \in Procs :
    (pc[w] \in {"bc3", "flux"} \/ \E b \in 1..Len(localBlocks[w]) : localBlocks[w][b].edge)
      => /\ Len(did[w]) = Len(connL[w])
         /\ \A n \in 1..Len(connL[w]) :
              \A s \in LocalSides(connL[w][n], w) : HoldsPartnerSlice(w, n, s)

\* a worker runs the edge pass while another one is still swapping
C2_Witness ==
  \E w, v \in Procs : /\ \E b \in 1..Len(localBlocks[w]) : localBlocks[w][b].edge
                      /\ pc[v] \in {"bc1", "bc2", "bc2recv"}
                      /\ \E n \in 1..Len(connL[w]) : LocalSides(connL[w][n], w) # {}

\* C6 as stated: the ghost fill of a worker returns to its caller after the
\* edge pass, so a worker that has run the edge pass on a block is still
\* running.
C6_EdgePassReturns ==
  \A w \in Procs :
    (\E b \in 1..Len(localBlocks[w]) : localBlocks[w][b].edge) => pc[w] # "exited"

\* ------------------------------------------------------------------------
\* Properties of the scatter
\* ------------------------------------------------------------------------
\* a worker is through the scatter of the blocks
ScatterDone(w) ==
  pc[w] \notin {"decomp", "scatterNum", "bcastConn", "sendBlocks", "recvBlocks"}

\* the block messages of a queue from the coordinator
BlockMsgs(q) == {n \in 1..Len(q) : q[n].tag = BlockTag}

\* blocks for a worker that are in flight or that the coordinator is still
\* to send
BlocksToCome(w) ==
  Cardinality(BlockMsgs(chan[<<ROOT, w>>]))
  + (IF pc[ROOT] \in {"decomp", "scatterNum", "bcastConn", "sendBlocks"}
     THEN Cardinality({m \in (ii[ROOT] + 1)..Len(grid) : grid[m].rank = w})
     ELSE 0)

\* C7: manual decomposition with as many blocks as workers: once through the
\* scatter every worker, the coordinator included, holds exactly one block,
\* the one assigned to its rank; every block message is addressed to the
\* owner's rank and has been received when all are through; a worker waiting
\* for a block always has it in flight or still to be sent.
C7_ManualScatter ==
  (cfg.mode = "manual" /\ err = "none") =>
    /\ \A w \in Procs : ScatterDone(w) =>
         /\ Len(localBlocks[w]) = 1
         /\ localBlocks[w][1].globalPos = w
         /\ localBlocks[w][1].rank = w
         /\ localBlocks[w][1].sol = InitialSol(w)
    /\ \A w \in Procs : \A n \in BlockMsgs(chan[<<ROOT, w>>]) :
         chan[<<ROOT, w>>][n].body.rank = w
    /\ (\A w \in Procs : ScatterDone(w)) =>
         \A w \in Procs : BlockMsgs(chan[<<ROOT, w>>]) = {}
    /\ \A w \in Procs \ {ROOT} :
         pc[w] = "recvBlocks" => BlocksToCome(w) >= numProcBlock[w] - ii[w]

\* every worker is through a manual scatter with its block
C7_Witness ==
  /\ cfg.mode = "manual"
  /\ \A w \in Procs : pc[w] = "iter" /\ Len(localBlocks[w]) = 1

\* ------------------------------------------------------------------------
\* Properties of the gather
\* ------------------------------------------------------------------------
\* the coordinator's grid agrees with the blocks the workers hold
GatherMatches ==
  \A n \in 1..Len(grid) :
    /\ grid[n].globalPos = n - 1
    /\ \E b \in 1..Len(localBlocks[grid[n].rank]) :
         LET blk == localBlocks[grid[n].rank][b]
         IN /\ blk.globalPos = n - 1
            /\ grid[n].sol = blk.sol
            /\ grid[n].ghost = blk.ghost

\* C8 as stated: after the scatter, one iteration and the gather, the
\* coordinator's block list has the same blocks in the same order with the
\* state of the owning workers.
C8_RoundTrip ==
  (cfg.numIter >= 1 /\ \A w \in Procs : ScatterDone(w))
    ~> (pc[ROOT] = "done" /\ GatherMatches)

\* messages of the gather that are in flight from a worker
SolMsgs(w) == chan[<<w, ROOT>>]

\* what the gather has done so far is right
GatherSafe ==
  /\ \A w \in Procs \ {ROOT} : pc[w] \in {"gather", "done"} =>
       \* one message per local block sent so far, tagged with the global
       \* position of the block it carries
       /\ Len(SolMsgs(w))
            + Cardinality({n \in 1..Len(grid) :
                             \E k \in 1..Len(recvInto[n]) : recvInto[n][k].from = w})
            = ii[w]
       /\ \A k \in 1..Len(SolMsgs(w)) :
            /\ SolMsgs(w)[k].tag = SolMsgs(w)[k].body.globalPos
            /\ SolMsgs(w)[k].body.rank = w
  /\ \A n \in 1..Len(grid) :
       \* received at most once, in the order of the grid, from the owner,
       \* into the block with the message's global position
       /\ Len(recvInto[n]) <= 1
       /\ recvInto[n] # <<>> =>
            /\ n <= ii[ROOT]
            /\ grid[n].rank # ROOT
            /\ recvInto[n][1].from = grid[n].rank
            /\ recvInto[n][1].tag = grid[n].globalPos
            /\ recvInto[n][1].pos = grid[n].globalPos
            /\ grid[n].sol = InitialSol(recvInto[n][1].pos)
       /\ (pc[ROOT] \in {"gather", "done"} /\ n <= ii[ROOT] /\ grid[n].rank # ROOT)
            => Len(recvInto[n]) = 1
       /\ \A m \in 1..Len(grid) :
            (m # n /\ recvInto[n] # <<>> /\ recvInto[m] # <<>>)
              => recvInto[n][1].id # recvInto[m][1].id
  /\ (\A w \in Procs : pc[w] = "done") =>
       /\ \A p \in DOMAIN chan : chan[p] = <<>>
       /\ GatherMatches

\* C9: in the gather every worker sends one message per local block tagged
\* with the block's global position; the coordinator receives the blocks of
\* the other ranks in increasing global position, matching owner rank and
\* global position; every message is received exactly once, into the block
\* with that global position; the gather ends on all workers.
C9_Gather ==
  /\ []GatherSafe
  /\ (\E w \in Procs : pc[w] = "gather") ~> (\A w \in Procs : pc[w] = "done")

\* a gather has ended in which a worker sent two blocks
C9_Witness ==
  /\ \A w \in Procs : pc[w] = "done"
  /\ \E w \in Procs \ {ROOT} : Len(localBlocks[w]) = 2
  /\ \E n \in 1..Len(grid) : recvInto[n] # <<>>

\* C10 as stated: on a ConfigMismatch of the manual decomposition the job is
\* aborted: no block is scattered and no worker is left running or waiting.
C10_MismatchAbortsJob ==
  err = "ConfigMismatch" =>
    /\ \A w \in Procs : localBlocks[w] = <<>>
    /\ \A p \in DOMAIN chan : chan[p] = <<>>
    /\ \A w \in Procs : pc[w] = "exited"

\* ------------------------------------------------------------------------
\* Blocks and inter-block records at cell level
\* ------------------------------------------------------------------------
\* position of a direction in an <<i, j, k>> index (0, 1, 2 in the source)
Axis(d) == IF d = "i" THEN 1 ELSE IF d = "j" THEN 2 ELSE 3

\* directions of a patch on boundary surface 1..6 (il, iu, jl, ju, kl, ku):
\* the normal, and the first and second direction in the surface
Direction3(b) == IF b \in {1, 2} THEN "i" ELSE IF b \in {3, 4} THEN "j" ELSE "k"
Direction1(b) == IF b \in {1, 2} THEN "j" ELSE IF b \in {3, 4} THEN "k" ELSE "i"
Direction2(b) == IF b \in {1, 2} THEN "k" ELSE IF b \in {3, 4} THEN "i" ELSE "j"

\* the cells of a block of n = <<ni, nj, nk>> physical cells padded with ghosts
Cells(n) ==
  (0..(n[1] + 2 * NumGhosts - 1)) \X (0..(n[2] + 2 * NumGhosts - 1))
    \X (0..(n[3] + 2 * NumGhosts - 1))

\* the value that stands for the data (volume and centroid, or state) a
\* block computes for one of its own cells; 0 is a zero volume / no data
Token(id, c) == 1 + 1000 * id + 100 * c[1] + 10 * c[2] + c[3]

\* axes along which a cell lies outside the physical range
GhostAxes(n, c) == {a \in 1..3 : c[a] < NumGhosts \/ c[a] >= n[a] + NumGhosts}

IsPhysical(n, c) == GhostAxes(n, c) = {}

\* the boundary surface behind which a ghost cell lies along axis a
SurfaceOf(n, c, a) == IF c[a] < NumGhosts THEN 2 * a - 1 ELSE 2 * a

\* padded array of a block: own data in the physical cells, zero in the ghosts
PadWithGhosts(id, n) ==
  [c \in Cells(n) |-> IF IsPhysical(n, c) THEN Token(id, c) ELSE 0]

\* ghost cells behind the surfaces that are not inter-block boundaries get
\* data of their own from the boundary condition; ib is the set of
\* inter-block surfaces of the block.  Edge and corner ghosts are left.
AssignGhostCellsGeom(id, n, ib) ==
  [c \in Cells(n) |->
     IF Cardinality(GhostAxes(n, c)) = 1
          /\ \A a \in GhostAxes(n, c) : SurfaceOf(n, c, a) \notin ib
     THEN Token(id, c)
     ELSE PadWithGhosts(id, n)[c]]

\* is an index at an edge of the block: one index in the physical range, the
\* other two at the first level of ghost cells
AtEdge(n, c, includeGhost) ==
  LET offset == IF includeGhost THEN NumGhosts ELSE 0
      in(a) == c[a] >= offset /\ c[a] < n[a] + offset
      first(a) == c[a] = offset - 1 \/ c[a] = n[a] + offset
  IN IF in(1) /\ first(2) /\ first(3) THEN [atEdge |-> TRUE, dir |-> "i"]
     ELSE IF first(1) /\ in(2) /\ first(3) THEN [atEdge |-> TRUE, dir |-> "j"]
     ELSE IF first(1) /\ first(2) /\ in(3) THEN [atEdge |-> TRUE, dir |-> "k"]
     ELSE [atEdge |-> FALSE, dir |-> ""]

\* exchange the two sides of a record
Flip(p) == <<p[2], p[1]>>

SwapOrder(r) ==
  [block |-> Flip(r.block), boundary |-> Flip(r.boundary),
   d1Start |-> Flip(r.d1Start), d1End |-> Flip(r.d1End),
   d2Start |-> Flip(r.d2Start), d2End |-> Flip(r.d2End),
   constSurf |-> Flip(r.constSurf), border |-> Flip(r.border),
   orientation |-> IF r.orientation = 4 THEN 5
                   ELSE IF r.orientation = 5 THEN 4 ELSE r.orientation]

\* a record prepared for putting a slice into a block: the receiving block
\* is made the first side and its index ranges are extended by the ghosts;
\* the second side is given in the indices of the slice
AdjustForSlice(r, blkFirst, numG) ==
  LET q == IF blkFirst THEN r ELSE SwapOrder(r)
  IN [q EXCEPT
        !.constSurf = <<IF q.boundary[1] % 2 = 0 THEN q.constSurf[1] + numG ELSE 0, 0>>,
        !.d1End = <<q.d1End[1] + 2 * numG, q.d1End[2] - q.d1Start[2] + 2 * numG>>,
        !.d2End = <<q.d2End[1] + 2 * numG, q.d2End[2] - q.d2Start[2] + 2 * numG>>,
        !.d1Start = <<q.d1Start[1], 0>>,
        !.d2Start = <<q.d2Start[1], 0>>]

\* mark edge e (0..3: start, end of direction 1, start, end of direction 2)
\* of the patch of one side as bordering another inter-block patch
UpdateBorder(r, side, e) == [r EXCEPT !.border[side][e + 1] = TRUE]

\* first and last index of the slice a side of a record gives to its partner
SliceIndices(r, side, numG) ==
  LET upLowFac == IF r.boundary[side] % 2 = 0 THEN 0 ELSE numG
      s3 == r.constSurf[side] + upLowFac
      e3 == s3 + numG - 1
      s1 == r.d1Start[side]
      e1 == r.d1End[side] - 1 + 2 * numG
      s2 == r.d2Start[side]
      e2 == r.d2End[side] - 1 + 2 * numG
  IN IF r.boundary[side] \in {1, 2}
     THEN [s |-> <<s3, s1, s2>>, e |-> <<e3, e1, e2>>]
     ELSE IF r.boundary[side] \in {3, 4}
     THEN [s |-> <<s2, s3, s1>>, e |-> <<e2, e3, e1>>]
     ELSE [s |-> <<s1, s2, s3>>, e |-> <<e1, e2, e3>>]

\* value read outside an array
Garbage == 0 - 1

\* a slice: a copy of a box of cells of an array, indexed from 0
SliceOf(arr, ind) ==
  LET n == [a \in 1..3 |-> ind.e[a] - ind.s[a] + 1]
  IN [n |-> n,
      val |-> [l \in (0..(n[1] - 1)) \X (0..(n[2] - 1)) \X (0..(n[3] - 1)) |->
                 LET c == <<ind.s[1] + l[1], ind.s[2] + l[2], ind.s[3] + l[3]>>
                 IN IF c \in DOMAIN arr THEN arr[c] ELSE Garbage]]

\* element of a slice (of an array) at an index
At(f, c) == IF c \in DOMAIN f THEN f[c] ELSE Garbage

\* index of the cell that element (l1, l2, l3) of the insertion loop stands
\* for: in the receiving block (pairID) or in the slice (not pairID)
GetSwapLoc(l1, l2, l3, r, pairID) ==
  LET o == r.orientation
      side == IF pairID THEN 1 ELSE 2
      d3 == Direction3(r.boundary[side])
      a1 == Axis(Direction1(r.boundary[side]))
      a2 == Axis(Direction2(r.boundary[side]))
      a3 == Axis(d3)
      fwd1(l) == r.d1Start[2] + l
      rev1(l) == r.d1End[2] - 1 - l
      fwd2(l) == r.d2Start[2] + l
      rev2(l) == r.d2End[2] - 1 - l
      \* value along direction 1 and along direction 2 of the patch
      v1 == IF pairID THEN r.d1Start[1] + l1
            ELSE IF o \in {2, 4, 5, 7}
                 THEN (IF o \in {4, 7} THEN rev1(l2) ELSE fwd1(l2))
            ELSE IF d3 = "i"
                 THEN (IF o \in {6, 8} THEN rev1(l1) ELSE fwd1(l1))
            ELSE (IF o \in {3, 8} THEN rev1(l1) ELSE fwd1(l1))
      v2 == IF pairID THEN r.d2Start[1] + l2
            ELSE IF o \in {2, 4, 5, 7}
                 THEN (IF o \in {5, 7} THEN rev2(l1) ELSE fwd2(l1))
            ELSE IF d3 = "i"
                 THEN (IF o \in {3, 8} THEN rev2(l2) ELSE fwd2(l2))
            ELSE (IF o \in {6, 8} THEN rev2(l2) ELSE fwd2(l2))
      v3 == r.constSurf[side] + l3
  IN [a \in 1..3 |-> IF a = a1 THEN v1 ELSE IF a = a2 THEN v2 ELSE v3]

\* the insertion loops without the adjustment for bordering patches
PutLoopWholeSlice(r, d3, numG) ==
  {l \in (0..(r.d1End[1] - r.d1Start[1] - 1))
         \X (0..(r.d2End[1] - r.d2Start[1] - 1))
         \X (0..(d3 - 1)) : TRUE}

\* the elements the insertion loops visit: the strips of the edges that
\* border another inter-block patch are left out
PutLoop(r, d3, numG) ==
  LET adjS1 == IF r.border[1][1] THEN numG ELSE 0
      adjE1 == IF r.border[1][2] THEN numG ELSE 0
      adjS2 == IF r.border[1][3] THEN numG ELSE 0
      adjE2 == IF r.border[1][4] THEN numG ELSE 0
  IN {l \in (adjS1..(r.d1End[1] - r.d1Start[1] - adjE1 - 1))
            \X (adjS2..(r.d2End[1] - r.d2Start[1] - adjE2 - 1))
            \X (0..(d3 - 1)) : TRUE}

\* the check on the number of cells at the start of both insertions
SliceFits(slice, r, d3) ==
  (r.d1End[1] - r.d1Start[1]) * (r.d2End[1] - r.d2Start[1]) * d3
    = slice.n[1] * slice.n[2] * slice.n[3]

\* the edge of the patch (0..3) that a skipped element marks, 4 for none,
\* 5 for the fatal "edge direction does not match" case
EdgeMarked(n, r, indB) ==
  LET e == AtEdge(n, indB, TRUE)
      dir1 == Axis(Direction1(r.boundary[1]))
      dir2 == Axis(Direction2(r.boundary[1]))
  IN IF ~e.atEdge THEN 4
     ELSE IF e.dir = Direction1(r.boundary[1])
          THEN (IF indB[dir2] < r.d2Start[1] + NumGhosts THEN 2 ELSE 3)
     ELSE IF e.dir = Direction2(r.boundary[1])
          THEN (IF indB[dir1] < r.d1Start[1] + NumGhosts THEN 0 ELSE 1)
     ELSE 5

\* the insertion without the test for a zero volume
GeomWrittenAlways(vol) == TRUE

\* is the element of a geometry slice written into the block
GeomWritten(vol) == vol # 0

\* insertion of a geometry slice into the ghost cells of a block; gives the
\* new array, the four edge-adjustment flags and what was visited
PutGeomSlice(b, slice, r, d3, numG) ==
  LET L == PutLoop(r, d3, numG)
      indB(l) == GetSwapLoc(l[1], l[2], l[3], r, TRUE)
      indS(l) == GetSwapLoc(l[1], l[2], l[3], r, FALSE)
      vis == {[l |-> l, indB |-> indB(l), indS |-> indS(l),
               vol |-> At(slice.val, indS(l))] : l \in L}
      W == {v \in vis : GeomWritten(v.vol)}
      marks == {EdgeMarked(b.n, r, v.indB) : v \in vis \ W}
  IN [geom |-> [c \in DOMAIN b.geom |->
                  IF \E v \in W : v.indB = c
                  THEN (CHOOSE v \in W : v.indB = c).vol
                  ELSE b.geom[c]],
      adjEdge |-> [e \in 1..4 |-> (e - 1) \in marks],
      fatal |-> 5 \in marks,
      visited |-> vis]

\* the insertion of a state slice with the loop over the normal direction
\* running twice as deep
PutStateSliceDeep(b, slice, r, d3, numG) ==
  LET L == PutLoop(r, 2 * d3, numG)
      indB(l) == GetSwapLoc(l[1], l[2], l[3], r, TRUE)
      indS(l) == GetSwapLoc(l[1], l[2], l[3], r, FALSE)
  IN [c \in DOMAIN b.state |->
        IF \E l \in L : indB(l) = c
        THEN At(slice.val, indS(CHOOSE l \in L : indB(l) = c))
        ELSE b.state[c]]

\* insertion of a state slice into the ghost cells of a block
PutStateSlice(b, slice, r, d3, numG) ==
  LET L == PutLoop(r, d3, numG)
      indB(l) == GetSwapLoc(l[1], l[2], l[3], r, TRUE)
      indS(l) == GetSwapLoc(l[1], l[2], l[3], r, FALSE)
  IN [c \in DOMAIN b.state |->
        IF \E l \in L : indB(l) = c
        THEN At(slice.val, indS(CHOOSE l \in L : indB(l) = c))
        ELSE b.state[c]]

\* ------------------------------------------------------------------------
\* Swap study: layouts of blocks joined by inter-block boundaries
\* ------------------------------------------------------------------------
\* a block: its size, its inter-block surfaces, and its geometry and state
\* arrays after the boundary conditions of the physical surfaces were set
StudyBlock(id, n, ib) ==
  [id |-> id, n |-> n, ib |-> ib,
   geom |-> AssignGhostCellsGeom(id, n, ib),
   state |-> AssignGhostCellsGeom(id, n, ib)]

\* size of a block from the lengths of a patch on surface b and the depth
DimsFor(b, len1, len2, depth) ==
  [a \in 1..3 |-> IF a = Axis(Direction1(b)) THEN len1
                  ELSE IF a = Axis(Direction2(b)) THEN len2 ELSE depth]

NoBorder == <<FALSE, FALSE, FALSE, FALSE>>

\* face index of surface b of a block that is depth cells deep
SurfaceIndex(b, depth) == IF b % 2 = 0 THEN depth ELSE 0

\* two blocks joined over whole surfaces b1 and b2 with orientation o
PairBlocks(o, b1, b2) ==
  LET sw == o \in {2, 4, 5, 7}
  IN <<StudyBlock(0, DimsFor(b1, PatchLen1, PatchLen2, BlockDepth), {b1}),
       StudyBlock(1, IF sw THEN DimsFor(b2, PatchLen2, PatchLen1, BlockDepth)
                     ELSE DimsFor(b2, PatchLen1, PatchLen2, BlockDepth), {b2})>>

PairRecord(o, b1, b2) ==
  LET sw == o \in {2, 4, 5, 7}
  IN [block |-> <<0, 1>>, boundary |-> <<b1, b2>>,
      d1Start |-> <<0, 0>>,
      d1End |-> <<PatchLen1, IF sw THEN PatchLen2 ELSE PatchLen1>>,
      d2Start |-> <<0, 0>>,
      d2End |-> <<PatchLen2, IF sw THEN PatchLen1 ELSE PatchLen2>>,
      constSurf |-> <<SurfaceIndex(b1, BlockDepth), SurfaceIndex(b2, BlockDepth)>>,
      orientation |-> o, border |-> <<NoBorder, NoBorder>>]

\* three blocks at a "t" intersection: blocks 1 and 2 lie side by side on
\* the upper i surface of block 0 and touch each other on a j surface
TeeBlocks ==
  <<StudyBlock(0, <<BlockDepth, 2 * PatchLen2, PatchLen1>>, {2}),
    StudyBlock(1, <<BlockDepth, PatchLen2, PatchLen1>>, {1, 4}),
    StudyBlock(2, <<BlockDepth, PatchLen2, PatchLen1>>, {1, 3})>>

TeeRecords ==
  <<[block |-> <<0, 1>>, boundary |-> <<2, 1>>,
     d1Start |-> <<0, 0>>, d1End |-> <<PatchLen2, PatchLen2>>,
     d2Start |-> <<0, 0>>, d2End |-> <<PatchLen1, PatchLen1>>,
     constSurf |-> <<BlockDepth, 0>>, orientation |-> 1,
     border |-> <<<<FALSE, TRUE, FALSE, FALSE>>, NoBorder>>],
    [block |-> <<0, 2>>, boundary |-> <<2, 1>>,
     d1Start |-> <<PatchLen2, 0>>, d1End |-> <<2 * PatchLen2, PatchLen2>>,
     d2Start |-> <<0, 0>>, d2End |-> <<PatchLen1, PatchLen1>>,
     constSurf |-> <<BlockDepth, 0>>, orientation |-> 1,
     border |-> <<<<TRUE, FALSE, FALSE, FALSE>>, NoBorder>>],
    [block |-> <<1, 2>>, boundary |-> <<4, 3>>,
     d1Start |-> <<0, 0>>, d1End |-> <<PatchLen1, PatchLen1>>,
     d2Start |-> <<0, 0>>, d2End |-> <<BlockDepth, BlockDepth>>,
     constSurf |-> <<PatchLen2, 0>>, orientation |-> 1,
     border |-> <<NoBorder, NoBorder>>]>>

\* the orders in which three records can be listed
Orders3 == {p \in [1..3 -> 1..3] : \A x, y \in 1..3 : x # y => p[x] # p[y]}

Scenarios ==
  {[kind |-> "pair", o |-> o, b1 |-> b1, b2 |-> b2, ord |-> <<1>>] :
     o \in 1..8, b1 \in 1..6, b2 \in 1..6}
  \cup {[kind |-> "tee", o |-> 1, b1 |-> 2, b2 |-> 1, ord |-> p] : p \in Orders3}

InitSwap ==
  /\ scen \in Scenarios
  /\ states = IF scen.kind = "pair" THEN PairBlocks(scen.o, scen.b1, scen.b2)
              ELSE TeeBlocks
  /\ connections = IF scen.kind = "pair"
                   THEN <<PairRecord(scen.o, scen.b1, scen.b2)>>
                   ELSE TeeRecords
  /\ order = scen.ord
  /\ phase = "geom"
  /\ step = 0
  /\ lastPut = <<>>

\* the job is not part of the swap study
JobIdle ==
  /\ cfg = [nBlocks |-> 0, mode |-> "none", assign |-> <<>>, numIter |-> 0]
  /\ grid = <<>>
  /\ conn = <<>>
  /\ loadBal = [r \in Procs |-> 0]
  /\ err = "none"
  /\ pc = [r \in Procs |-> "idle"]
  /\ ii = [r \in Procs |-> 0]
  /\ numProcBlock = [r \in Procs |-> 0]
  /\ connL = [r \in Procs |-> <<>>]
  /\ localBlocks = [r \in Procs |-> <<>>]
  /\ chan = [p \in Procs \X Procs |-> <<>>]
  /\ sending = [r \in Procs |-> 0]
  /\ msgId = 0
  /\ did = [r \in Procs |-> <<>>]
  /\ recvInto = <<>>

\* the record the swap pass is at
CurRecord == connections[order[step + 1]]

\* geometry swap of one record: each block gets the other's slice, the
\* edge-adjustment flags go into the record
SwapGeomSlice ==
  /\ phase = "geom"
  /\ step < Len(order)
  /\ LET r == CurRecord
         b1 == states[r.block[1] + 1]
         b2 == states[r.block[2] + 1]
         geom1 == SliceOf(b1.geom, SliceIndices(r, 1, NumGhosts))
         geom2 == SliceOf(b2.geom, SliceIndices(r, 2, NumGhosts))
         inter1 == AdjustForSlice(r, FALSE, NumGhosts)
         inter2 == AdjustForSlice(r, TRUE, NumGhosts)
         p1 == PutGeomSlice(b1, geom2, inter2, NumGhosts, NumGhosts)
         p2 == PutGeomSlice(b2, geom1, inter1, NumGhosts, NumGhosts)
     IN IF SliceFits(geom2, inter2, NumGhosts) /\ SliceFits(geom1, inter1, NumGhosts)
           /\ ~p1.fatal /\ ~p2.fatal
        THEN /\ states' = [states EXCEPT ![r.block[1] + 1].geom = p1.geom,
                                         ![r.block[2] + 1].geom = p2.geom]
             /\ connections' = [connections EXCEPT ![order[step + 1]].border =
                                  <<[e \in 1..4 |-> @[1][e] \/ p1.adjEdge[e]],
                                    [e \in 1..4 |-> @[2][e] \/ p2.adjEdge[e]]>>]
             /\ lastPut' = <<[blk |-> r.block[1], adjEdge |-> p1.adjEdge,
                              visited |-> p1.visited,
                              ext |-> <<inter2.d1End[1] - inter2.d1Start[1],
                                        inter2.d2End[1] - inter2.d2Start[1]>>],
                             [blk |-> r.block[2], adjEdge |-> p2.adjEdge,
                              visited |-> p2.visited,
                              ext |-> <<inter1.d1End[1] - inter1.d1Start[1],
                                        inter1.d2End[1] - inter1.d2Start[1]>>]>>
             /\ step' = step + 1
             /\ phase' = phase
        ELSE /\ phase' = "exited"
             /\ UNCHANGED <<states, connections, lastPut, step>>
  /\ UNCHANGED <<scen, order>>
  /\ UNCHANGED <<jobVars, blockVars>>

\* all records had their geometry swapped; the state swaps follow
GeomPassDone ==
  /\ phase = "geom"
  /\ step = Len(order)
  /\ phase' = "state"
  /\ step' = 0
  /\ UNCHANGED <<scen, states, connections, order, lastPut>>
  /\ UNCHANGED <<jobVars, blockVars>>

\* state swap of one record
SwapSlice ==
  /\ phase = "state"
  /\ step < Len(order)
  /\ LET r == CurRecord
         b1 == states[r.block[1] + 1]
         b2 == states[r.block[2] + 1]
         state1 == SliceOf(b1.state, SliceIndices(r, 1, NumGhosts))
         state2 == SliceOf(b2.state, SliceIndices(r, 2, NumGhosts))
         inter1 == AdjustForSlice(r, FALSE, NumGhosts)
         inter2 == AdjustForSlice(r, TRUE, NumGhosts)
     IN IF SliceFits(state2, inter2, NumGhosts) /\ SliceFits(state1, inter1, NumGhosts)
        THEN /\ states' = [states EXCEPT
                             ![r.block[1] + 1].state =
                                PutStateSlice(b1, state2, inter2, NumGhosts, NumGhosts),
                             ![r.block[2] + 1].state =
                                PutStateSlice(b2, state1, inter1, NumGhosts, NumGhosts)]
             /\ step' = step + 1
             /\ phase' = phase
        ELSE /\ phase' = "exited"
             /\ UNCHANGED <<states, step>>
  /\ UNCHANGED <<scen, connections, order, lastPut>>
  /\ UNCHANGED <<jobVars, blockVars>>

\* all records had their states swapped
StatePassDone ==
  /\ phase = "state"
  /\ step = Len(order)
  /\ phase' = "done"
  /\ UNCHANGED <<scen, states, connections, order, step, lastPut>>
  /\ UNCHANGED <<jobVars, blockVars>>

NextSwap ==
  \/ SwapGeomSlice
  \/ GeomPassDone
  \/ SwapSlice
  \/ StatePassDone

\* the swap study starts with the blocks padded and no job running
InitStudy == InitSwap /\ JobIdle /\ BlockIdle

SpecSwap == InitStudy /\ [][NextSwap]_vars

\* ------------------------------------------------------------------------
\* Properties of the slice swap
\* ------------------------------------------------------------------------
\* what the orientation of a record says about the second patch relative to
\* the first: directions 1 and 2 exchanged, direction 1 reversed, direction 2
\* reversed
Swapped(o) == o \in {2, 4, 5, 7}
Dir1Reversed(o) == o \in {3, 4, 7, 8}
Dir2Reversed(o) == o \in {5, 6, 7, 8}

\* the position (u1, u2) on the second patch that lies against position
\* (t1, t2) of the first patch; len1, len2 are the lengths of the second
PartnerPos(o, t1, t2, len1, len2) ==
  LET w1 == IF Swapped(o) THEN t2 ELSE t1
      w2 == IF Swapped(o) THEN t1 ELSE t2
  IN <<IF Dir1Reversed(o) THEN len1 - 1 - w1 ELSE w1,
       IF Dir2Reversed(o) THEN len2 - 1 - w2 ELSE w2>>

\* cell of a block at position t of the patch on surface b: ghost cell
\* number g behind the surface (1 next to it), or cell of interior layer g
PatchCell(n, b, t, g, ghost) ==
  LET a3 == Axis(Direction3(b))
      v3 == IF ghost
            THEN (IF b % 2 = 1 THEN NumGhosts - g ELSE n[a3] + NumGhosts + g - 1)
            ELSE (IF b % 2 = 1 THEN NumGhosts + g - 1 ELSE n[a3] + NumGhosts - g)
  IN [a \in 1..3 |-> IF a = Axis(Direction1(b)) THEN NumGhosts + t[1]
                     ELSE IF a = Axis(Direction2(b)) THEN NumGhosts + t[2]
                     ELSE v3]

\* (a lower surface of one block against an upper surface of the other)
\* the ghost cells of both blocks of a pair hold the states of the partner's
\* interior cells that lie against them
GhostsMatchPartner ==
  LET r == connections[1]
      A == states[1]
      B == states[2]
  IN \A t1 \in 0..(r.d1End[1] - 1), t2 \in 0..(r.d2End[1] - 1), g \in 1..NumGhosts :
       LET u == PartnerPos(r.orientation, t1, t2, r.d1End[2], r.d2End[2])
       IN /\ A.state[PatchCell(A.n, r.boundary[1], <<t1, t2>>, g, TRUE)]
               = Token(1, PatchCell(B.n, r.boundary[2], u, g, FALSE))
          /\ B.state[PatchCell(B.n, r.boundary[2], u, g, TRUE)]
               = Token(0, PatchCell(A.n, r.boundary[1], <<t1, t2>>, g, FALSE))

\* C3 as stated: after the exchange over a record without border flags, for
\* every orientation 1..8 and every direction of the patch normals, each
\* ghost cell holds the state of the partner's interior cell as if the grid
\* were continuous: first ghost from the first interior layer, second from
\* the second, positions in the surface remapped by the orientation.
C3_GhostsAsIfContinuous ==
  (scen.kind = "pair" /\ phase = "done" /\ (scen.b1 + scen.b2) % 2 = 1)
    => GhostsMatchPartner

\* the geometry swap that a step has just done
GeomSwapped == phase = "geom" /\ step' = step + 1

\* a skipped element of an insertion is left as it was in the block
SkippedUnchanged(p) ==
  \A v \in p.visited :
    v.vol = 0 => states'[p.blk + 1].geom[v.indB] = states[p.blk + 1].geom[v.indB]

\* the edges of the patch (0..3) in whose strip of ghost cells an element of
\* the insertion loops lies
EdgesOf(l, ext) ==
  {e \in 0..3 : \/ e = 0 /\ l[1] < NumGhosts
                \/ e = 1 /\ l[1] >= ext[1] - NumGhosts
                \/ e = 2 /\ l[2] < NumGhosts
                \/ e = 3 /\ l[2] >= ext[2] - NumGhosts}

\* C4 as stated: when a geometry slice is inserted, every element whose
\* volume is exactly 0 is not written, and the receiving side sets the
\* edge-adjustment flag of the patch edge the element lies on.
C4_ZeroVolumeFlagged ==
  [][GeomSwapped =>
       \A n \in 1..2 :
         /\ SkippedUnchanged(lastPut'[n])
         /\ \A v \in lastPut'[n].visited :
              v.vol = 0 => \E e \in EdgesOf(v.l, lastPut'[n].ext) :
                             lastPut'[n].adjEdge[e + 1]]_vars

\* a cell at an edge of the block it is in, on the side of patch edge e of
\* the patch on surface b: the index along the edge is physical, the other
\* two are in the first layer of ghost cells
AtBlockEdge(m, b, c, e) ==
  LET along == IF e \in {0, 1} THEN Axis(Direction2(b)) ELSE Axis(Direction1(b))
      across == IF e \in {0, 1} THEN Axis(Direction1(b)) ELSE Axis(Direction2(b))
      normal == Axis(Direction3(b))
  IN /\ c[along] >= NumGhosts /\ c[along] < m[along] + NumGhosts
     /\ c[normal] = NumGhosts - 1 \/ c[normal] = m[normal] + NumGhosts
     /\ IF e \in {0, 2} THEN c[across] = NumGhosts - 1
        ELSE c[across] = m[across] + NumGhosts

\* the surface of a block on which its patch of the record just swapped lies
PutSurface(n) == connections[order[step + 1]].boundary[n]

\* C4 as the code has it: every element whose volume is exactly 0 is not
\* written; the flag of a patch edge is set exactly when such an element is
\* destined for a cell at an edge of the receiving block on the side of that
\* patch edge; zero volumes destined elsewhere (second ghost layer, corners)
\* are skipped without a flag.
C4_ZeroVolumeSkipped ==
  [][GeomSwapped =>
       \A n \in 1..2 :
         /\ SkippedUnchanged(lastPut'[n])
         /\ \A e \in 0..3 :
              lastPut'[n].adjEdge[e + 1]
                <=> \E v \in lastPut'[n].visited :
                      /\ v.vol = 0
                      /\ AtBlockEdge(states[lastPut'[n].blk + 1].n, PutSurface(n),
                                     v.indB, e)]_vars

\* an insertion has skipped elements, set a flag and left valid data alone
C4_Witness ==
  \E n \in 1..Len(lastPut) :
    /\ \E e \in 1..4 : lastPut[n].adjEdge[e]
    /\ \E v \in lastPut[n].visited :
         v.vol = 0 /\ states[lastPut[n].blk + 1].geom[v.indB] # 0

\* the edge strips at a "t" intersection: the ghost cells of blocks 1 and 2
\* that lie both behind the surface to block 0 and behind the surface to
\* the other block, with the cell of block 0 that is there in the grid
EdgeStrip ==
  {<<1, <<i, PatchLen2 + NumGhosts + g, k>>,
         <<BlockDepth + i, PatchLen2 + NumGhosts + g, k>>>> :
     i \in 0..(NumGhosts - 1), g \in 0..(NumGhosts - 1),
     k \in NumGhosts..(NumGhosts + PatchLen1 - 1)}
  \cup
  {<<2, <<i, g, k>>, <<BlockDepth + i, PatchLen2 + g, k>>>> :
     i \in 0..(NumGhosts - 1), g \in 0..(NumGhosts - 1),
     k \in NumGhosts..(NumGhosts + PatchLen1 - 1)}

GeomValid(x) == states[x[1] + 1].geom[x[2]] = Token(0, x[3])
StateValid(x) == states[x[1] + 1].state[x[2]] = Token(0, x[3])

\* C5: three blocks at a "t" intersection, the three records swapped in any
\* order: once a cell of the edge strips of blocks 1 and 2 holds the data of
\* block 0, no later swap overwrites it, and after the passes every cell of
\* the strips holds the data of block 0.
C5_EdgeStripsKept ==
  /\ [][scen.kind = "tee" =>
          \A x \in EdgeStrip :
            /\ GeomValid(x) => GeomValid(x)'
            /\ StateValid(x) => StateValid(x)']_vars
  /\ []((scen.kind = "tee" /\ phase \in {"state", "done"}) =>
          \A x \in EdgeStrip : GeomValid(x))
  /\ []((scen.kind = "tee" /\ phase = "done") =>
          \A x \in EdgeStrip : StateValid(x))

\* the swap of blocks 1 and 2 came between the two swaps with block 0 and
\* marked an edge of its record
C5_Witness ==
  /\ scen.kind = "tee"
  /\ phase = "done"
  /\ order[2] = 3
  /\ \E n \in 1..2 : \E e \in 1..4 : connections[3].border[n][e]

\* ------------------------------------------------------------------------
\* Block study: one block on one worker through the steps of an iteration
\* (inviscid fluxes, time step, update)
\* ------------------------------------------------------------------------
\* largest number of cells of the block under study along a direction
MaxCells == 2
\* number of equations, the length of a genArray
NumVars == 2

Abs(a) == IF a < 0 THEN 0 - a ELSE a

\* quotient rounded towards zero: the model's numbers are integers, this
\* stands for the floating-point division
Quot(a, b) ==
  IF b = 0 THEN 0
  ELSE IF (a < 0) = (b < 0) THEN Abs(a) \div Abs(b)
  ELSE 0 - (Abs(a) \div Abs(b))

\* sizes a block may have
BlockDims == (1..MaxCells) \X (1..MaxCells) \X (1..MaxCells)

\* the physical cells of a block in indices without ghosts, and the same
\* cell in indices with ghosts
PhysCells(n) == (0..(n[1] - 1)) \X (0..(n[2] - 1)) \X (0..(n[3] - 1))
WithGhosts(c) == <<c[1] + NumGhosts, c[2] + NumGhosts, c[3] + NumGhosts>>

\* the physical cells in the order of the loops over them: kk outermost,
\* ii innermost
CellSeq(n) ==
  [m \in 1..(n[1] * n[2] * n[3]) |->
     CHOOSE c \in PhysCells(n) : c[1] + n[1] * (c[2] + n[2] * c[3]) = m - 1]

\* index moved by s cells along direction d (1 = i, 2 = j, 3 = k)
Shift(c, d, s) == [c EXCEPT ![d] = @ + s]

\* genArray arithmetic
ZeroArray == [k \in 1..NumVars |-> 0]
ArrayAdd(a, b) == [k \in 1..NumVars |-> a[k] + b[k]]
ArrayScale(s, a) == [k \in 1..NumVars |-> s * a[k]]
ArrayMul(a, b) == [k \in 1..NumVars |-> a[k] * b[k]]

\* conserved variables of a primitive state and back: the first entry is
\* the density, the others are carried per unit mass
ConsVars(p) == [k \in 1..NumVars |-> IF k = 1 THEN p[1] ELSE p[1] * p[k]]
PrimVars(u) == [k \in 1..NumVars |-> IF k = 1 THEN u[1] ELSE Quot(u[k], u[1])]

\* extents of the arrays of a block as the allocating constructor makes them
AllocExtents(n, numG) ==
  LET pad == <<n[1] + 2 * numG, n[2] + 2 * numG, n[3] + 2 * numG>>
  IN [state |-> pad, center |-> pad, vol |-> pad,
      fAreaI |-> Shift(pad, 1, 1), fAreaJ |-> Shift(pad, 2, 1),
      fAreaK |-> Shift(pad, 3, 1),
      fCenterI |-> Shift(pad, 1, 1), fCenterJ |-> Shift(pad, 2, 1),
      fCenterK |-> Shift(pad, 3, 1),
      residual |-> n, avgWaveSpeed |-> n, dt |-> n, wallDist |-> n]

\* the flow field a block starts from, by input profile
InitialState(prof, c) ==
  [k \in 1..NumVars |->
     IF k = 1 THEN 1 + ((c[1] + c[2] + c[3] + prof) % 2)
     ELSE (((c[1] + 2 * c[2] + 3 * c[3]) * prof + k) % 5) - 2]

\* the block of the study: state in all cells (ghosts filled), unit
\* volumes, residual and wave speed reset, no time step yet
ProcBlock(n, prof) ==
  [n |-> n, parBlock |-> prof,
   ext |-> AllocExtents(n, NumGhosts),
   state |-> [c \in Cells(n) |-> InitialState(prof, c)],
   vol |-> [c \in Cells(n) |-> 1],
   residual |-> [c \in PhysCells(n) |-> ZeroArray],
   avgWaveSpeed |-> [c \in PhysCells(n) |-> 0],
   dt |-> [c \in PhysCells(n) |-> 0]]

\* flux at a face from the states on its two sides (first order), per unit
\* area, and the spectral radius of a cell
RoeFlux(lower, upper) == [k \in 1..NumVars |-> lower[k] + 2 * upper[k]]
CellSpectralRadius(state) == 1 + Abs(state[NumVars])

\* -- inviscid fluxes ------------------------------------------------------
\* extent of the face-area array of direction d
FaceExtent(b, d) ==
  IF d = 1 THEN b.ext.fAreaI ELSE IF d = 2 THEN b.ext.fAreaJ ELSE b.ext.fAreaK

\* the faces of direction d the flux loops visit, in indices with ghosts
FluxFaces(b, d) ==
  LET e == FaceExtent(b, d)
  IN (NumGhosts..(e[1] - NumGhosts - 1)) \X (NumGhosts..(e[2] - NumGhosts - 1))
       \X (NumGhosts..(e[3] - NumGhosts - 1))

\* a left cell exists unless the face is on the lower boundary
LeftCellAlways(g, d) == TRUE
LeftCell(g, d) == g[d] > NumGhosts

\* a right cell exists unless the face is on the upper boundary
RightCell(b, g, d) == g[d] < FaceExtent(b, d)[d] - NumGhosts - 1

\* what the loop body adds for face g of direction d: the flux to the
\* residual of the left cell, minus the flux to the residual of the right
\* cell, and the spectral radius to the wave speed of the right cell
FluxWritesOf(b, d, g) ==
  LET p == <<g[1] - NumGhosts, g[2] - NumGhosts, g[3] - NumGhosts>>
      tempFlux == RoeFlux(b.state[Shift(g, d, 0 - 1)], b.state[g])
  IN (IF LeftCell(g, d)
      THEN {[cell |-> Shift(p, d, 0 - 1), sign |-> 1, face |-> p, dir |-> d,
             flux |-> tempFlux, ws |-> 0]}
      ELSE {})
     \cup
     (IF RightCell(b, g, d)
      THEN {[cell |-> p, sign |-> 0 - 1, face |-> p, dir |-> d,
             flux |-> tempFlux, ws |-> CellSpectralRadius(b.state[g])]}
      ELSE {})

FluxWrites(b, d) == UNION {FluxWritesOf(b, d, g) : g \in FluxFaces(b, d)}

\* sum of the signed fluxes and of the wave speeds of a set of writes
RECURSIVE SumWrites(_)
SumWrites(W) ==
  IF W = {} THEN [flux |-> ZeroArray, ws |-> 0]
  ELSE LET w == CHOOSE x \in W : TRUE
           r == SumWrites(W \ {w})
       IN [flux |-> ArrayAdd(r.flux, ArrayScale(w.sign, w.flux)),
           ws |-> r.ws + w.ws]

\* the writes are accumulated into the residual and the wave speed
AddToResidual(b, W) ==
  [b EXCEPT
     !.residual = [c \in PhysCells(b.n) |->
                     ArrayAdd(b.residual[c],
                              SumWrites({w \in W : w.cell = c}).flux)],
     !.avgWaveSpeed = [c \in PhysCells(b.n) |->
                         b.avgWaveSpeed[c] + SumWrites({w \in W : w.cell = c}).ws]]

\* CalcInvFluxI, CalcInvFluxJ, CalcInvFluxK for d = 1, 2, 3
CalcInvFlux(b, d) == AddToResidual(b, FluxWrites(b, d))

\* -- time step ------------------------------------------------------------
CalcCellDt(b, c, cfl) == Quot(cfl * b.vol[WithGhosts(c)], b.avgWaveSpeed[c])

\* time step of all cells: the given one, or the local one from the CFL
\* number; with neither the program prints an error and calls exit(0)
CalcBlockTimeStep(b, inp) ==
  IF inp.dt > 0
  THEN [block |-> [b EXCEPT !.dt = [c \in PhysCells(b.n) |-> inp.dt]],
        fatal |-> FALSE]
  ELSE IF inp.cfl > 0
  THEN [block |-> [b EXCEPT !.dt = [c \in PhysCells(b.n) |->
                                      CalcCellDt(b, c, inp.cfl)]],
        fatal |-> FALSE]
  ELSE [block |-> b, fatal |-> TRUE]

\* -- update ---------------------------------------------------------------
\* the update of the conserved variables the implicit solver hands over
ImplicitDu == [k \in 1..NumVars |-> 1]

\* whether the driver runs the named scheme as an implicit one
ImpFlag(name) == name \in {"implicitEuler", "crankNicholson", "bdf2"}

ExplicitEulerTimeAdvance(b, c) ==
  PrimVars([k \in 1..NumVars |->
              ConsVars(b.state[WithGhosts(c)])[k]
                - Quot(b.dt[c] * b.residual[c][k], b.vol[WithGhosts(c)])])

ImplicitTimeAdvance(b, c, du) ==
  PrimVars(ArrayAdd(ConsVars(b.state[WithGhosts(c)]), du))

\* the Runge-Kutta coefficients 1/4, 1/3, 1/2, 1 as twelfths
Alpha12 == <<3, 4, 6, 12>>

\* one stage for one cell: from the state handed in, with the block's
\* current time step and residual
RK4TimeAdvance(b, currState, c, rk) ==
  PrimVars([k \in 1..NumVars |->
              ConsVars(currState)[k]
                - Quot(b.dt[c] * Alpha12[rk + 1] * b.residual[c][k],
                       12 * b.vol[WithGhosts(c)])])

\* a new largest residual and where it is
UpdateMax(val, blk, c, eq) ==
  [linf |-> val, blk |-> blk, i |-> c[1], j |-> c[2], k |-> c[3], eqn |-> eq]

\* the loop over the equations of one cell
RECURSIVE LinfOfCell(_, _, _, _)
LinfOfCell(linf, b, c, ll) ==
  IF ll = NumVars THEN linf
  ELSE LinfOfCell(IF b.residual[c][ll + 1] > linf.linf
                  THEN UpdateMax(b.residual[c][ll + 1], b.parBlock, c, ll + 1)
                  ELSE linf,
                  b, c, ll + 1)

\* the norms after the cells from number m on (in loop order) were visited
RECURSIVE AccumulateNorms(_, _, _, _)
AccumulateNorms(b, m, l2, linf) ==
  IF m > Len(CellSeq(b.n)) THEN [l2 |-> l2, linf |-> linf]
  ELSE LET c == CellSeq(b.n)[m]
       IN AccumulateNorms(b, m + 1,
                          ArrayAdd(l2, ArrayMul(b.residual[c], b.residual[c])),
                          LinfOfCell(linf, b, c, 0))

\* a cell in indices without ghosts
WithoutGhosts(g) == <<g[1] - NumGhosts, g[2] - NumGhosts, g[3] - NumGhosts>>

\* the stages rr..3 of the Runge-Kutta branch; stateN is the state saved
\* before the first stage.  Every stage is logged: the time step and the
\* residual it found, the state it left.
RECURSIVE RK4Stages(_, _, _, _, _, _, _)
RK4Stages(b, inp, stateN, rr, l2, linf, stages) ==
  IF rr = 4
  THEN [block |-> b, l2 |-> l2, linf |-> linf, stages |-> stages,
        diag |-> FALSE]
  ELSE LET adv == [b EXCEPT !.state =
                     [g \in Cells(b.n) |->
                        IF IsPhysical(b.n, g)
                        THEN RK4TimeAdvance(b, stateN[g], WithoutGhosts(g), rr)
                        ELSE b.state[g]]]
           nrm == IF rr = 3 THEN AccumulateNorms(adv, 1, l2, linf)
                  ELSE [l2 |-> l2, linf |-> linf]
           nxt == IF rr < 3
                  THEN CalcBlockTimeStep(
                         CalcInvFlux(CalcInvFlux(CalcInvFlux(adv, 1), 2), 3),
                         inp).block
                  ELSE adv
       IN RK4Stages(nxt, inp, stateN, rr + 1, nrm.l2, nrm.linf,
                    Append(stages, [dt |-> b.dt, residual |-> b.residual,
                                    state |-> adv.state]))

\* UpdateBlock: the block advanced by the configured scheme, the norms of
\* the residual accumulated into l2 and linf
UpdateBlock(b, inp, impFlag, l2, linf) ==
  IF inp.timeIntegration # "rk4"
  THEN LET adv == [b EXCEPT !.state =
                     [g \in Cells(b.n) |->
                        IF ~IsPhysical(b.n, g) THEN b.state[g]
                        ELSE IF inp.timeIntegration = "explicitEuler"
                        THEN ExplicitEulerTimeAdvance(b, WithoutGhosts(g))
                        ELSE IF impFlag
                        THEN ImplicitTimeAdvance(b, WithoutGhosts(g), ImplicitDu)
                        ELSE b.state[g]]]
           nrm == AccumulateNorms(b, 1, l2, linf)
       IN [block |-> adv, l2 |-> nrm.l2, linf |-> nrm.linf, stages |-> <<>>,
           diag |-> FALSE]
  ELSE IF inp.timeIntegration = "rk4"
  THEN RK4Stages(b, inp, b.state, 0, l2, linf, <<>>)
  ELSE [block |-> b, l2 |-> l2, linf |-> linf, stages |-> <<>>, diag |-> TRUE]

\* -- the study ------------------------------------------------------------
\* names of time-integration schemes the input may give
SchemeNames == {"explicitEuler", "implicitEuler", "rk4", "rk5"}

UpdateInputs ==
  [study : {"update"}, n : BlockDims, timeIntegration : SchemeNames,
   dt : {0, 2}, cfl : {0, 12}, profile : {1, 2}]

\* a residual record before any residual was seen
NoResid == [linf |-> 0, blk |-> 0, i |-> 0, j |-> 0, k |-> 0, eqn |-> 0]

InitUpdate ==
  /\ inputVars \in UpdateInputs
  /\ block = ProcBlock(inputVars.n, inputVars.profile)
  /\ run = [at |-> "fluxI", writes |-> {}, l2 |-> ZeroArray, linf |-> NoResid,
            stages |-> <<>>, diag |-> FALSE]
  /\ JobIdle
  /\ SwapIdle

\* the inviscid fluxes of the three directions, in turn
CalcInvFluxI ==
  /\ run.at = "fluxI"
  /\ block' = CalcInvFlux(block, 1)
  /\ run' = [run EXCEPT !.at = "fluxJ", !.writes = @ \cup FluxWrites(block, 1)]
  /\ UNCHANGED <<inputVars, jobVars, swapVars>>

CalcInvFluxJ ==
  /\ run.at = "fluxJ"
  /\ block' = CalcInvFlux(block, 2)
  /\ run' = [run EXCEPT !.at = "fluxK", !.writes = @ \cup FluxWrites(block, 2)]
  /\ UNCHANGED <<inputVars, jobVars, swapVars>>

CalcInvFluxK ==
  /\ run.at = "fluxK"
  /\ block' = CalcInvFlux(block, 3)
  /\ run' = [run EXCEPT !.at = "dt", !.writes = @ \cup FluxWrites(block, 3)]
  /\ UNCHANGED <<inputVars, jobVars, swapVars>>

\* the time step of the block
CalcTimeStep ==
  /\ run.at = "dt"
  /\ LET r == CalcBlockTimeStep(block, inputVars)
     IN /\ block' = r.block
        /\ run' = [run EXCEPT !.at = IF r.fatal THEN "exited" ELSE "update"]
  /\ UNCHANGED <<inputVars, jobVars, swapVars>>

\* the update of the block, with the norms of the residual
UpdateBlockStep ==
  /\ run.at = "update"
  /\ LET r == UpdateBlock(block, inputVars, ImpFlag(inputVars.timeIntegration),
                          run.l2, run.linf)
     IN /\ block' = r.block
        /\ run' = [run EXCEPT !.at = "done", !.l2 = r.l2, !.linf = r.linf,
                              !.stages = r.stages, !.diag = r.diag]
  /\ UNCHANGED <<inputVars, jobVars, swapVars>>

NextUpdate ==
  \/ CalcInvFluxI
  \/ CalcInvFluxJ
  \/ CalcInvFluxK
  \/ CalcTimeStep
  \/ UpdateBlockStep

SpecUpdate == InitUpdate /\ [][NextUpdate]_vars

\* ------------------------------------------------------------------------
\* Properties of the block update
\* ------------------------------------------------------------------------
\* the schemes the solver knows
Recognized(name) == name \in {"explicitEuler", "rk4"} \/ ImpFlag(name)

\* C11 as stated: with a time-integration name that is not a recognized
\* scheme the update is fatal: it does not complete and no residual norms
\* are accumulated for that name.
C11_UnknownSchemeFatal ==
  (inputVars.study = "update" /\ ~Recognized(inputVars.timeIntegration))
    => (run.at # "done" /\ run.l2 = ZeroArray /\ run.linf = NoResid)

\* the physical faces of direction d, by the index of the cell above them
PhysFaces(n, d) == {p \in PhysCells(Shift(n, d, 1)) : TRUE}

\* the directions whose fluxes have been computed
DirsDone ==
  IF run.at = "fluxI" THEN {}
  ELSE IF run.at = "fluxJ" THEN {1}
  ELSE IF run.at = "fluxK" THEN {1, 2}
  ELSE {1, 2, 3}

\* flux at physical face p of direction d of the block's flow field
FaceFlux(b, d, p) ==
  RoeFlux(b.state[Shift(WithGhosts(p), d, 0 - 1)], b.state[WithGhosts(p)])

\* C14: for every physical face of a direction the flux is added to the
\* residual of the lower-index cell and subtracted from the residual of the
\* upper-index cell, a face on the boundary of the physical region giving
\* only to the one interior cell next to it; every residual index written
\* is an interior index and every interior cell gets exactly one + and one
\* - per direction.
C14_FluxSigns ==
  inputVars.study = "update" =>
    /\ \A w \in run.writes : w.cell \in PhysCells(block.n)
    /\ \A d \in DirsDone : \A p \in PhysFaces(block.n, d) :
         /\ (\E w \in run.writes :
               w.dir = d /\ w.face = p /\ w.sign = 1
               /\ w.cell = Shift(p, d, 0 - 1)) <=> p[d] > 0
         /\ (\E w \in run.writes :
               w.dir = d /\ w.face = p /\ w.sign = 0 - 1 /\ w.cell = p)
              <=> p[d] < block.n[d]
         /\ \A w \in run.writes :
              (w.dir = d /\ w.face = p) =>
                w.cell = (IF w.sign = 1 THEN Shift(p, d, 0 - 1) ELSE p)
    /\ \A d \in DirsDone : \A c \in PhysCells(block.n) : \A s \in {1, 0 - 1} :
         Cardinality({w \in run.writes :
                        w.dir = d /\ w.cell = c /\ w.sign = s}) = 1
    /\ \A w \in run.writes : w.dir \in DirsDone /\ w.face \in PhysFaces(block.n, w.dir)
    /\ run.at \in {"fluxJ", "fluxK", "dt", "update"} =>
         \A c \in PhysCells(block.n) : \A k \in 1..NumVars :
           block.residual[c][k] =
             LET R(d) == IF d \in DirsDone
                         THEN FaceFlux(block, d, Shift(c, d, 1))[k]
                                - FaceFlux(block, d, c)[k]
                         ELSE 0
             IN R(1) + R(2) + R(3)

\* all three directions were computed on a block with two cells along a
\* direction and some residual is negative
C14_Witness ==
  /\ inputVars.study = "update"
  /\ run.at = "update"
  /\ \E d \in 1..3 : block.n[d] = 2
  /\ \E c \in PhysCells(block.n) : block.residual[c][1] < 0

\* what a Runge-Kutta stage makes of the state stateN of a cell with time
\* step dtN and residual res
StageOf(stateN, dtN, vol, res, s) ==
  PrimVars([k \in 1..NumVars |->
              ConsVars(stateN)[k] - Quot(dtN * Alpha12[s] * res[k], 12 * vol)])

\* C15 as stated: in the Runge-Kutta update every stage s computes its
\* state from the state and the time step saved before the first stage
\* (and the residual it finds), not from a state or time step produced
\* during an earlier stage.
C15_StagesFromSaved ==
  (inputVars.study = "update" /\ inputVars.timeIntegration = "rk4"
     /\ run.at = "done") =>
    /\ Len(run.stages) = 4
    /\ \A s \in 1..4 : \A c \in PhysCells(block.n) :
         run.stages[s].state[WithGhosts(c)] =
           StageOf(InitialState(inputVars.profile, WithGhosts(c)),
                   run.stages[1].dt[c], block.vol[WithGhosts(c)],
                   run.stages[s].residual[c], s)

\* the largest magnitude among the components of the block's residual
MaxAbsResidual(b) ==
  LET S == {Abs(b.residual[c][k]) : c \in PhysCells(b.n), k \in 1..NumVars}
  IN CHOOSE m \in S : \A x \in S : x <= m

\* C17 as stated: after the update has visited all interior cells the
\* running L-infinity record holds the largest magnitude among all
\* components of the residual, of either sign, and (when some residual is
\* not zero) its locator is (parent block, i, j, k, equation + 1) of a
\* component of that magnitude, i, j, k without ghosts.
C17_LinfIsLargestMagnitude ==
  (inputVars.study = "update" /\ run.at = "done") =>
    /\ run.linf.linf = MaxAbsResidual(block)
    /\ MaxAbsResidual(block) > 0 =>
         /\ run.linf.blk = block.parBlock
         /\ <<run.linf.i, run.linf.j, run.linf.k>> \in PhysCells(block.n)
         /\ run.linf.eqn \in 1..NumVars
         /\ Abs(block.residual[<<run.linf.i, run.linf.j, run.linf.k>>]
                              [run.linf.eqn]) = run.linf.linf

\* ------------------------------------------------------------------------
\* Reduction of the residual records of the workers (MaxLinf)
\* ------------------------------------------------------------------------

\* number of processors that contribute a record, and the largest residual
NumWorkers == 3
MaxResid == 2

\* the record worker w holds after its blocks were updated: the record
\* is untouched while no residual exceeded 0, else it carries the value
\* and the locator UpdateMax stored
WorkerRecord(w, v) ==
  IF v = 0 THEN NoResid
  ELSE [linf |-> v, blk |-> w, i |-> w + 1, j |-> v, k |-> 0,
        eqn |-> 1 + (w % NumVars)]

ReduceInputs ==
  {[study |-> "reduce",
    records |-> [w \in 1..NumWorkers |-> WorkerRecord(w, f[w])]] :
     f \in [1..NumWorkers -> 0..MaxResid]}

InitReduce ==
  /\ inputVars \in ReduceInputs
  /\ block = "none"
  /\ run = [pool |-> inputVars.records, left |-> 1..NumWorkers]
  /\ JobIdle
  /\ SwapIdle

\* a maximum that takes the larger value but leaves the locator of inout
MaxLinfKeepsLocator(in, inout) ==
  [inout EXCEPT !.linf = IF in.linf >= inout.linf THEN in.linf ELSE @]

\* the user-defined reduction operation on one pair of records
MaxLinf(in, inout) ==
  IF in.linf >= inout.linf THEN in ELSE inout

\* the reduction combines two of the records still to be combined, in an
\* order of the library's choosing; the result replaces inout
ReduceStep ==
  /\ \E a \in run.left : \E b \in run.left \ {a} :
       run' = [pool |-> [run.pool EXCEPT
                           ![b] = MaxLinf(run.pool[a], run.pool[b])],
               left |-> run.left \ {a}]
  /\ UNCHANGED <<inputVars, block, jobVars, swapVars>>

NextReduce == ReduceStep

SpecReduce == InitReduce /\ [][NextReduce]_vars

\* the largest of the workers' values
MaxOfWorkers ==
  CHOOSE m \in {inputVars.records[w].linf : w \in 1..NumWorkers} :
    \A w \in 1..NumWorkers : inputVars.records[w].linf <= m

\* C12: whatever the order in which the records are combined, the reduced
\* record has the largest of the workers' L-infinity values, and the whole
\* record, its five locator integers included, is the record of one worker
\* that has this largest value.
C12_ReducedIsMax ==
  Cardinality(run.left) = 1 =>
    \A b \in run.left :
      /\ run.pool[b].linf = MaxOfWorkers
      /\ \E w \in 1..NumWorkers :
           /\ inputVars.records[w].linf = MaxOfWorkers
           /\ inputVars.records[w] = run.pool[b]

\* all records combined, two workers tie at the largest value, a third one
\* is below it, and the result carries the locator of a worker other than
\* the one whose buffer holds the result
C12_Witness ==
  /\ Cardinality(run.left) = 1
  /\ MaxOfWorkers > 0
  /\ \E w1, w2, w3 \in 1..NumWorkers :
       /\ w1 # w2
       /\ inputVars.records[w1].linf = MaxOfWorkers
       /\ inputVars.records[w2].linf = MaxOfWorkers
       /\ inputVars.records[w3].linf < MaxOfWorkers
  /\ \A b \in run.left : run.pool[b].blk # b

\* ------------------------------------------------------------------------
\* Hyperplane ordering and the LU-SGS sweeps on one block
\* ------------------------------------------------------------------------

\* largest extent of a block of this study and the number of sweeps run
MaxDim == 4
MaxSweeps == 5

SweepDims == (1..MaxDim) \X (1..MaxDim) \X (1..MaxDim)

\* IsPhysical with includeGhost false: indices without ghosts
IsPhysicalNoGhost(n, c) ==
  ~(\E a \in 1..3 : c[a] < 0 \/ c[a] > n[a] - 1)

\* one hyperplane too few
NumPlanesShort(n) == n[1] + n[2] + n[3] - 3

\* total number of hyperplanes in a block
NumPlanes(n) == n[1] + n[2] + n[3] - 2

\* the cells with ii + jj + kk = pp in the order of the loops over kk, jj, ii
PlaneCells(n, pp) ==
  SelectSeq(CellSeq(n), LAMBDA c : c[1] + c[2] + c[3] = pp)

RECURSIVE PlanesFrom(_, _)
PlanesFrom(n, pp) ==
  IF pp >= NumPlanes(n) THEN <<>>
  ELSE PlaneCells(n, pp) \o PlanesFrom(n, pp + 1)

HyperplaneReorder(n) == PlanesFrom(n, 0)

\* -- LU-SGS --------------------------------------------------------------
\* convective flux of a state through a face of unit area, and its change
\* when the conserved variables of the state change by du
ConvectiveFlux(p) ==
  [k \in 1..NumVars |->
     IF k = 1 THEN p[1] * p[2]
     ELSE p[1] * p[2] * p[k] + (IF k = 2 THEN p[1] ELSE 0)]

UpdateWithConsVars(p, du) == PrimVars(ArrayAdd(ConsVars(p), du))

ConvectiveFluxUpdate(p, du) ==
  LET new == ConvectiveFlux(UpdateWithConsVars(p, du))
      old == ConvectiveFlux(p)
  IN [k \in 1..NumVars |-> new[k] - old[k]]

\* main diagonal of a cell (theta = 1, zeta = 0, matrix relaxation 1, no
\* dual time stepping): wave speed plus volume over time step
Aii(b, c) ==
  b.avgWaveSpeed[c] + Quot(b.vol[WithGhosts(c)], b.dt[c])

\* contribution of the neighbour of cell c on side s (-1 lower, 1 upper)
\* along direction d to L or U; faces have unit area
OffDiagonal(b, x, c, d, s) ==
  LET nb == Shift(c, d, s)
  IN IF ~IsPhysicalNoGhost(b.n, nb) THEN ZeroArray
     ELSE LET st == b.state[WithGhosts(nb)]
              specRad == CellSpectralRadius(UpdateWithConsVars(st, x[nb]))
              fluxChange == ConvectiveFluxUpdate(st, x[nb])
          IN [k \in 1..NumVars |->
                Quot(fluxChange[k] - s * specRad * x[nb][k], 2)]

\* a forward step that sets a unit correction whatever the right-hand side
\* and the lower neighbours are
ForwardCellUnit(b, x, hist, c) == [k \in 1..NumVars |-> 1]

\* the correction of cell c in the forward sweep
ForwardCell(b, x, hist, c) ==
  LET L == ArrayAdd(OffDiagonal(b, x, c, 1, -1),
             ArrayAdd(OffDiagonal(b, x, c, 2, -1),
                      OffDiagonal(b, x, c, 3, -1)))
  IN [k \in 1..NumVars |->
        Quot(0 - b.residual[c][k] - hist.solDeltaNm1[c][k]
               - hist.solTimeMmN[c][k] + L[k],
             Aii(b, c))]

\* the correction of cell c in the backward sweep
BackwardCell(b, x, c) ==
  LET U == ArrayAdd(OffDiagonal(b, x, c, 1, 1),
             ArrayAdd(OffDiagonal(b, x, c, 2, 1),
                      OffDiagonal(b, x, c, 3, 1)))
  IN [k \in 1..NumVars |-> x[c][k] - Quot(U[k], Aii(b, c))]

RECURSIVE ForwardSweep(_, _, _, _, _)
ForwardSweep(b, reorder, x, hist, pos) ==
  IF pos > Len(reorder) THEN x
  ELSE ForwardSweep(b, reorder,
         [x EXCEPT ![reorder[pos]] = ForwardCell(b, x, hist, reorder[pos])],
         hist, pos + 1)

RECURSIVE BackwardSweep(_, _, _, _)
BackwardSweep(b, reorder, x, pos) ==
  IF pos < 1 THEN x
  ELSE BackwardSweep(b, reorder,
         [x EXCEPT ![reorder[pos]] = BackwardCell(b, x, reorder[pos])],
         pos - 1)

\* one call: forward sweep, then backward sweep, over the cells in the
\* order handed in
LUSGS(b, reorder, x, hist) ==
  BackwardSweep(b, reorder, ForwardSweep(b, reorder, x, hist, 1),
                Len(reorder))

\* -- the study ------------------------------------------------------------
\* a correction that is not zero in any cell (pattern 1, 2), or zero (0)
InitialX(n, pat) ==
  [c \in PhysCells(n) |->
     [k \in 1..NumVars |->
        IF pat = 0 THEN 0
        ELSE IF (c[1] + c[2] + c[3] + k + pat) % 2 = 0 THEN pat ELSE 0 - 1]]

\* right-hand side: residual and the two time-history terms, all zero or
\* all set
SweepRhs(n, rhs) ==
  [c \in PhysCells(n) |->
     [k \in 1..NumVars |-> IF rhs = "zero" THEN 0 ELSE 4 * (1 + c[1]) + k]]

SweepInputs ==
  [study : {"lusgs"}, n : SweepDims, rhs : {"zero", "set"}, pat : 0..2]

SweepBlock(inp) ==
  [ProcBlock(inp.n, 1) EXCEPT
     !.residual = SweepRhs(inp.n, inp.rhs),
     !.avgWaveSpeed = [c \in PhysCells(inp.n) |-> 1 + ((c[1] + c[3]) % 2)],
     !.dt = [c \in PhysCells(inp.n) |-> 1]]

InitSweep ==
  /\ inputVars \in SweepInputs
  /\ block = SweepBlock(inputVars)
  /\ run = [at |-> "reorder", reorder |-> <<>>,
            x |-> InitialX(inputVars.n, inputVars.pat), sweeps |-> 0]
  /\ JobIdle
  /\ SwapIdle

\* the cells are ordered once, before the first sweep
ReorderStep ==
  /\ run.at = "reorder"
  /\ run' = [run EXCEPT !.at = "sweep",
                        !.reorder = HyperplaneReorder(block.n)]
  /\ UNCHANGED <<inputVars, block, jobVars, swapVars>>

SweepStep ==
  /\ run.at = "sweep"
  /\ run.sweeps < MaxSweeps
  /\ run' = [run EXCEPT
               !.sweeps = @ + 1,
               !.x = LUSGS(block, run.reorder, run.x,
                           [solDeltaNm1 |-> SweepRhs(block.n, inputVars.rhs),
                            solTimeMmN |-> SweepRhs(block.n, inputVars.rhs)])]
  /\ UNCHANGED <<inputVars, block, jobVars, swapVars>>

NextSweep == ReorderStep \/ SweepStep

SpecSweep == InitSweep /\ [][NextSweep]_vars

\* position of cell c in the ordering
PlaceOf(reorder, c) == CHOOSE m \in 1..Len(reorder) : reorder[m] = c

\* C13: for every block size the ordering holds every cell with
\* 0 <= i < nI, 0 <= j < nJ, 0 <= k < nK exactly once, and each lower
\* neighbour (i-1,j,k), (i,j-1,k), (i,j,k-1) of a cell that is physical lies
\* on a hyperplane of smaller i+j+k and stands earlier in the ordering.
C13_HyperplaneOrder ==
  run.at = "sweep" =>
    /\ Len(run.reorder) = Cardinality(PhysCells(block.n))
    /\ \A c \in PhysCells(block.n) :
         Cardinality({m \in 1..Len(run.reorder) : run.reorder[m] = c}) = 1
    /\ \A m \in 1..Len(run.reorder) : \A d \in 1..3 :
         LET c == run.reorder[m]
             lower == Shift(c, d, -1)
         IN IsPhysicalNoGhost(block.n, lower) =>
              /\ lower[1] + lower[2] + lower[3] < c[1] + c[2] + c[3]
              /\ \E l \in 1..(m - 1) : run.reorder[l] = lower

\* a block with more than one cell in each direction has been ordered
C13_Witness ==
  /\ run.at = "sweep"
  /\ \A a \in 1..3 : block.n[a] >= 2
  /\ Len(run.reorder) = block.n[1] * block.n[2] * block.n[3]
  /\ block.n[1] # block.n[2]

SurfaceTypes == 1..6
DirOfSurface(t) == (t + 1) \div 2
IsUpper(t) == t % 2 = 0

BcTags == {"slipWall", "viscousWall", "subsonicInflow", "interblock"}

\* viscousWall is handled as slipWall by the inviscid ghost passes
InviscidBcName(tag) == IF tag = "viscousWall" THEN "slipWall" ELSE tag

\* index (with ghosts) along the normal of surface t of the m-th interior
\* cell and of the m-th ghost cell, m = 1, 2
InteriorIndex(n, t, m) ==
  IF IsUpper(t) THEN n[DirOfSurface(t)] + NumGhosts - m
  ELSE NumGhosts + m - 1
GhostIndex(n, t, m) ==
  IF IsUpper(t) THEN n[DirOfSurface(t)] + NumGhosts - 1 + m
  ELSE NumGhosts - m

\* the ghost state a boundary condition makes of a state: the slip wall
\* reflects the state through the wall, the others continue it; the result
\* tells the condition, the surface and the layer it was made for
BcCode(bcName) ==
  IF bcName = "slipWall" THEN 0
  ELSE IF bcName = "subsonicInflow" THEN 1
  ELSE IF bcName = "interblock" THEN 2 ELSE 3
GetGhostState(v, bcName, t, layer) ==
  (IF bcName = "slipWall" THEN 0 - v ELSE v) * 128
    + 2 * (16 * BcCode(bcName) + 2 * t + (layer - 1))

\* the boundary condition of the surface of type t that holds a location:
\* every side of the block is one surface
GetBCName(tags, t) == tags[t]

\* the state every cell holds before the ghost passes
UnsetState(n, c) ==
  2 * (1 + c[1] + (n[1] + 2 * NumGhosts)
                    * (c[2] + (n[2] + 2 * NumGhosts) * c[3]))

\* the cells of ghost layer m of surface t the pass over the surface
\* writes: the other two indices run over the physical range
SurfaceGhosts(n, t, m) ==
  {c \in Cells(n) :
     /\ c[DirOfSurface(t)] = GhostIndex(n, t, m)
     /\ GhostAxes(n, c) = {DirOfSurface(t)}}

\* the two sources of the second layer exchanged
SecondLayerSwapped(bcName) == IF bcName = "slipWall" THEN 1 ELSE 2

\* the interior layer the second ghost layer is made from: the boundary
\* states stay those of the first interior cell unless the condition is
\* slipWall
SecondLayerSource(bcName) == IF bcName = "slipWall" THEN 2 ELSE 1

\* the pass over one surface of type t
SurfaceGhostStates(n, tags, st, t) ==
  LET d == DirOfSurface(t)
      bcName == InviscidBcName(tags[t])
      first(c) == GetGhostState(st[[c EXCEPT ![d] = InteriorIndex(n, t, 1)]],
                                bcName, t, 1)
      second(c) ==
        IF n[d] < 2 THEN first(c)
        ELSE GetGhostState(
               st[[c EXCEPT ![d] =
                     InteriorIndex(n, t, SecondLayerSource(bcName))]],
               bcName, t, 2)
  IN IF tags[t] = "interblock" THEN st
     ELSE [c \in Cells(n) |->
             IF c \in SurfaceGhosts(n, t, 1) THEN first(c)
             ELSE IF c \in SurfaceGhosts(n, t, 2) THEN second(c)
             ELSE st[c]]

RECURSIVE GhostStatesFrom(_, _, _, _)
GhostStatesFrom(n, tags, st, t) ==
  IF t > 6 THEN st
  ELSE GhostStatesFrom(n, tags, SurfaceGhostStates(n, tags, st, t), t + 1)

\* the loop over all boundary surfaces
InviscidGhostStates(n, tags, st) == GhostStatesFrom(n, tags, st, 1)

\* -- edges ---------------------------------------------------------------
\* the 12 edges by the two surfaces that meet there, in the order of the
\* three loops: edges along i (a j- and a k-surface), along j, along k
EdgeSeq ==
  << <<3, 5>>, <<3, 6>>, <<4, 5>>, <<4, 6>>,
     <<1, 5>>, <<1, 6>>, <<2, 5>>, <<2, 6>>,
     <<1, 3>>, <<1, 4>>, <<2, 3>>, <<2, 4>> >>

\* direction an edge runs along
AlongOf(e) == CHOOSE d \in 1..3 : d \notin {DirOfSurface(e[1]), DirOfSurface(e[2])}

\* the cell at position pos of edge e with index ia along the normal of the
\* first surface and ib along the normal of the second
EdgeCell(e, pos, ia, ib) ==
  [d \in 1..3 |->
     IF d = DirOfSurface(e[1]) THEN ia
     ELSE IF d = DirOfSurface(e[2]) THEN ib ELSE pos]

\* every corner treated by the averaging rule
EdgeRuleAverage(bcA, bcB) == "average"

\* which rule a corner gets from the two boundary conditions that meet
EdgeRule(bcA, bcB) ==
  IF bcA = "slipWall" /\ bcB # "slipWall" THEN "wallFirst"
  ELSE IF bcA # "slipWall" /\ bcB = "slipWall" THEN "wallSecond"
  ELSE "average"

\* the four assignments at position pos of edge e, in the order of the code
EdgeAt(n, tags, st, e, pos) ==
  LET ta == e[1]
      tb == e[2]
      bcA == InviscidBcName(GetBCName(tags, ta))
      bcB == InviscidBcName(GetBCName(tags, tb))
      pa == InteriorIndex(n, ta, 1)
      ia1 == IF IsUpper(ta) THEN pa - 1 ELSE pa + 1
      ga1 == GhostIndex(n, ta, 1)
      ga2 == GhostIndex(n, ta, 2)
      pb == InteriorIndex(n, tb, 1)
      ib1 == IF IsUpper(tb) THEN pb - 1 ELSE pb + 1
      gb1 == GhostIndex(n, tb, 1)
      gb2 == GhostIndex(n, tb, 2)
      at(ia, ib) == EdgeCell(e, pos, ia, ib)
  IN CASE EdgeRule(bcA, bcB) = "wallFirst" ->
            LET s1 == [st EXCEPT ![at(ga1, gb1)] =
                         GetGhostState(st[at(pa, gb1)], bcA, ta, 1)]
                s2 == [s1 EXCEPT ![at(ga1, gb2)] =
                         GetGhostState(s1[at(pa, gb2)], bcA, ta, 1)]
                s3 == [s2 EXCEPT ![at(ga2, gb1)] =
                         GetGhostState(s2[at(ia1, gb1)], bcA, ta, 2)]
            IN [s3 EXCEPT ![at(ga2, gb2)] =
                  GetGhostState(s3[at(ia1, gb2)], bcA, ta, 2)]
       [] EdgeRule(bcA, bcB) = "wallSecond" ->
            LET s1 == [st EXCEPT ![at(ga1, gb1)] =
                         GetGhostState(st[at(ga1, pb)], bcB, tb, 1)]
                s2 == [s1 EXCEPT ![at(ga2, gb1)] =
                         GetGhostState(s1[at(ga2, pb)], bcB, tb, 1)]
                s3 == [s2 EXCEPT ![at(ga1, gb2)] =
                         GetGhostState(s2[at(ga1, ib1)], bcB, tb, 2)]
            IN [s3 EXCEPT ![at(ga2, gb2)] =
                  GetGhostState(s3[at(ga2, ib1)], bcB, tb, 2)]
       [] OTHER ->
            LET s1 == [st EXCEPT ![at(ga1, gb1)] =
                         (st[at(pa, gb1)] + st[at(ga1, pb)]) \div 2]
                s2 == [s1 EXCEPT ![at(ga1, gb2)] = s1[at(pa, gb2)]]
                s3 == [s2 EXCEPT ![at(ga2, gb1)] = s2[at(ga2, pb)]]
            IN [s3 EXCEPT ![at(ga2, gb2)] =
                  (s3[at(ga1, gb2)] + s3[at(ga2, gb1)]) \div 2]

\* the loops over the edges (m-th edge) and the positions along each
RECURSIVE EdgeStatesFrom(_, _, _, _, _)
EdgeStatesFrom(n, tags, st, m, pos) ==
  IF m > Len(EdgeSeq) THEN st
  ELSE IF pos > n[AlongOf(EdgeSeq[m])] + NumGhosts - 1
       THEN EdgeStatesFrom(n, tags, st, m + 1, NumGhosts)
       ELSE EdgeStatesFrom(n, tags, EdgeAt(n, tags, st, EdgeSeq[m], pos),
                           m, pos + 1)

EdgeGhostStates(n, tags, st) == EdgeStatesFrom(n, tags, st, 1, NumGhosts)

\* -- the study -------------------------------------------------------------
\* the tag of the upper surface of a direction, from that of the lower one
UpperTag(tag) ==
  IF tag = "slipWall" THEN "subsonicInflow"
  ELSE IF tag = "subsonicInflow" THEN "viscousWall"
  ELSE IF tag = "viscousWall" THEN "interblock" ELSE "slipWall"

GhostInputs ==
  [study : {"ghost"}, n : BlockDims, lower : BcTags \X BcTags \X BcTags]

SurfaceTags(lower) ==
  [t \in SurfaceTypes |->
     IF IsUpper(t) THEN UpperTag(lower[DirOfSurface(t)])
     ELSE lower[DirOfSurface(t)]]

InitGhost ==
  /\ inputVars \in GhostInputs
  /\ block = [n |-> inputVars.n, tags |-> SurfaceTags(inputVars.lower),
              state |-> [c \in Cells(inputVars.n) |->
                           UnsetState(inputVars.n, c)]]
  /\ run = [at |-> "surfaces"]
  /\ JobIdle
  /\ SwapIdle

\* phase 1: ghost states of the boundary surfaces
InviscidGhostStep ==
  /\ run.at = "surfaces"
  /\ block' = [block EXCEPT
                 !.state = InviscidGhostStates(block.n, block.tags, @)]
  /\ run' = [run EXCEPT !.at = "edges"]
  /\ UNCHANGED <<inputVars, jobVars, swapVars>>

\* phase 3: ghost states of the edges; the pass ends the process
EdgeGhostStep ==
  /\ run.at = "edges"
  /\ block' = [block EXCEPT
                 !.state = EdgeGhostStates(block.n, block.tags, @)]
  /\ run' = [run EXCEPT !.at = "exited"]
  /\ UNCHANGED <<inputVars, jobVars, swapVars>>

NextGhost == InviscidGhostStep \/ EdgeGhostStep

SpecGhost == InitGhost /\ [][NextGhost]_vars

\* the cell of interior layer m under ghost cell c of surface t
InteriorUnder(n, t, m, c) ==
  [c EXCEPT ![DirOfSurface(t)] = InteriorIndex(n, t, m)]

\* the first ghost layer of surface t is made from the first interior cell
FirstLayerFromFirst(t) ==
  \A c \in SurfaceGhosts(block.n, t, 1) :
    block.state[c] =
      GetGhostState(block.state[InteriorUnder(block.n, t, 1, c)],
                    InviscidBcName(block.tags[t]), t, 1)

\* the second ghost layer of surface t is made, as layer 2, from interior
\* layer m
SecondLayerFrom(t, m) ==
  \A c \in SurfaceGhosts(block.n, t, 2) :
    block.state[c] =
      GetGhostState(block.state[InteriorUnder(block.n, t, m, c)],
                    InviscidBcName(block.tags[t]), t, 2)

\* C18 as stated: after the pass over the boundary surfaces, for every
\* surface that is not inter-block (viscousWall handled as slipWall) the
\* first ghost layer is generated from the first interior cell and the
\* second ghost layer from the second interior cell (for slipWall: its
\* reflection through the wall), wherever a second interior cell exists.
C18_SecondFromSecondInterior ==
  run.at = "edges" =>
    \A t \in SurfaceTypes :
      block.tags[t] # "interblock" =>
        /\ FirstLayerFromFirst(t)
        /\ block.n[DirOfSurface(t)] >= 2 => SecondLayerFrom(t, 2)

\* C18 amended: the first ghost layer is generated from the first interior
\* cell; the second ghost layer is generated, as layer 2, from the first
\* interior cell when the tag is not slipWall and from the second interior
\* cell when it is slipWall; in a block one cell thick along the normal of
\* the surface the second ghost layer is a copy of the first.
C18_SecondLayerByTag ==
  run.at = "edges" =>
    \A t \in SurfaceTypes :
      block.tags[t] # "interblock" =>
        /\ FirstLayerFromFirst(t)
        /\ IF block.n[DirOfSurface(t)] < 2
           THEN \A c \in SurfaceGhosts(block.n, t, 2) :
                  block.state[c] =
                    block.state[[c EXCEPT ![DirOfSurface(t)] =
                                   GhostIndex(block.n, t, 1)]]
           ELSE IF InviscidBcName(block.tags[t]) = "slipWall"
                THEN SecondLayerFrom(t, 2)
                ELSE SecondLayerFrom(t, 1)

\* the pass has run on a block with a surface that is neither a wall nor
\* inter-block and a wall surface, both over two cells, and a surface
\* over one cell
C18_Witness ==
  /\ run.at = "edges"
  /\ \E t1, t2, t3 \in SurfaceTypes :
       /\ block.tags[t1] = "subsonicInflow"
       /\ block.n[DirOfSurface(t1)] >= 2
       /\ block.tags[t2] \in {"slipWall", "viscousWall"}
       /\ block.n[DirOfSurface(t2)] >= 2
       /\ block.tags[t3] # "interblock"
       /\ block.n[DirOfSurface(t3)] = 1

\* what the claim says of position pos of edge e, on the states st the
\* block holds after the pass
EdgeAsClaimed(n, tags, st, e, pos) ==
  LET ta == e[1]
      tb == e[2]
      wallA == tags[ta] \in {"slipWall", "viscousWall"}
      wallB == tags[tb] \in {"slipWall", "viscousWall"}
      pa == InteriorIndex(n, ta, 1)
      pb == InteriorIndex(n, tb, 1)
      ga1 == GhostIndex(n, ta, 1)
      ga2 == GhostIndex(n, ta, 2)
      gb1 == GhostIndex(n, tb, 1)
      gb2 == GhostIndex(n, tb, 2)
      at(ia, ib) == EdgeCell(e, pos, ia, ib)
      \* state made by the wall of surface t for layer m from cell src;
      \* in a block one cell thick along the wall's normal the source of
      \* the second layer is an edge ghost of the opposite side, read
      \* before or after this pass has set it
      made(c, t, m, src) ==
        \/ st[c] = GetGhostState(st[src], "slipWall", t, m)
        \/ /\ m = 2
           /\ n[DirOfSurface(t)] < 2
           /\ st[c] = GetGhostState(UnsetState(n, src), "slipWall", t, m)
  IN IF wallA = wallB
     THEN /\ st[at(ga1, gb1)] = (st[at(pa, gb1)] + st[at(ga1, pb)]) \div 2
          /\ st[at(ga1, gb2)] = st[at(pa, gb2)]
          /\ st[at(ga2, gb1)] = st[at(ga2, pb)]
          /\ st[at(ga2, gb2)] = (st[at(ga1, gb2)] + st[at(ga2, gb1)]) \div 2
     ELSE IF wallA
     THEN /\ made(at(ga1, gb1), ta, 1, at(pa, gb1))
          /\ made(at(ga1, gb2), ta, 1, at(pa, gb2))
          /\ made(at(ga2, gb1), ta, 2, at(InteriorIndex(n, ta, 2), gb1))
          /\ made(at(ga2, gb2), ta, 2, at(InteriorIndex(n, ta, 2), gb2))
     ELSE /\ made(at(ga1, gb1), tb, 1, at(ga1, pb))
          /\ made(at(ga2, gb1), tb, 1, at(ga2, pb))
          /\ made(at(ga1, gb2), tb, 2, at(ga1, InteriorIndex(n, tb, 2)))
          /\ made(at(ga2, gb2), tb, 2, at(ga2, InteriorIndex(n, tb, 2)))

\* C19: after the edge pass, at every position along each of the 12 edges:
\* when the two surfaces that meet are both walls or both not walls,
\* (g1,g1) is the mean of the two adjacent regular ghosts, (g1,g2) and
\* (g2,g1) are copies of the adjacent regular ghost of the second layer and
\* (g2,g2) is the mean of (g1,g2) and (g2,g1); when exactly one is a wall
\* the four ghosts are made by the wall's ghost generator along the wall's
\* normal, layer 1 from the cells of the row of the first interior cell and
\* layer 2 from the cells of the row of the second, both taken in the ghost
\* layers of the other surface.
C19_EdgeRules ==
  run.at = "exited" =>
    \A m \in 1..Len(EdgeSeq) :
      \A pos \in NumGhosts..(block.n[AlongOf(EdgeSeq[m])] + NumGhosts - 1) :
        EdgeAsClaimed(block.n, block.tags, block.state, EdgeSeq[m], pos)

\* the pass has run on a block of two cells along i with an edge where a
\* wall meets a surface that is not a wall, an edge of two walls and an
\* edge of two surfaces that are not walls
C19_Witness ==
  /\ run.at = "exited"
  /\ block.n[1] >= 2
  /\ block.tags[1] = "viscousWall" /\ block.tags[3] = "subsonicInflow"
  /\ block.tags[5] = "slipWall"
  /\ block.tags[4] = "viscousWall" /\ block.tags[6] = "subsonicInflow"
  /\ block.state[<<GhostIndex(block.n, 1, 2), GhostIndex(block.n, 3, 1),
                   NumGhosts>>]
       = GetGhostState(block.state[<<InteriorIndex(block.n, 1, 2),
                                     GhostIndex(block.n, 3, 1), NumGhosts>>],
                       "slipWall", 1, 2)

\* ------------------------------------------------------------------------
\* Extents of the arrays of a block, by the way the block is made
\* ------------------------------------------------------------------------

\* extent of an array of extent e padded with numG ghost layers per side
PaddedExtent(e, numG) == <<e[1] + 2 * numG, e[2] + 2 * numG, e[3] + 2 * numG>>

\* extents made by the constructor from a plot3d block of pts points per
\* direction: cell arrays of pts - 1 cells and face arrays of one more
\* entry along their direction, padded; the others without ghosts
GridExtents(pts, numG) ==
  LET cells == <<pts[1] - 1, pts[2] - 1, pts[3] - 1>>
  IN [state |-> PaddedExtent(cells, numG),
      center |-> PaddedExtent(cells, numG),
      vol |-> PaddedExtent(cells, numG),
      fAreaI |-> PaddedExtent(Shift(cells, 1, 1), numG),
      fAreaJ |-> PaddedExtent(Shift(cells, 2, 1), numG),
      fAreaK |-> PaddedExtent(Shift(cells, 3, 1), numG),
      fCenterI |-> PaddedExtent(Shift(cells, 1, 1), numG),
      fCenterJ |-> PaddedExtent(Shift(cells, 2, 1), numG),
      fCenterK |-> PaddedExtent(Shift(cells, 3, 1), numG),
      residual |-> cells, avgWaveSpeed |-> cells, dt |-> cells,
      wallDist |-> cells]

\* extents CleanResizeVecs gives the arrays of a block of n cells
CleanResizeVecs(n, numG) ==
  LET g == <<n[1] + numG, n[2] + numG, n[3] + numG>>
  IN [state |-> g, center |-> g, vol |-> g,
      fAreaI |-> Shift(g, 1, 1), fAreaJ |-> Shift(g, 2, 1),
      fAreaK |-> Shift(g, 3, 1),
      fCenterI |-> Shift(g, 1, 1), fCenterJ |-> Shift(g, 2, 1),
      fCenterK |-> Shift(g, 3, 1),
      residual |-> n, avgWaveSpeed |-> n, dt |-> n, wallDist |-> n]

AllocInputs == [study : {"alloc"}, n : SweepDims]

InitAlloc ==
  /\ inputVars \in AllocInputs
  /\ block = [n |-> inputVars.n, made |-> "no", ext |-> <<>>]
  /\ run = [at |-> "start"]
  /\ JobIdle
  /\ SwapIdle

\* the coordinator constructs the block from the grid
ConstructFromGrid ==
  /\ run.at = "start"
  /\ block' = [block EXCEPT
                 !.made = "grid",
                 !.ext = GridExtents(<<block.n[1] + 1, block.n[2] + 1,
                                       block.n[3] + 1>>, NumGhosts)]
  /\ run' = [run EXCEPT !.at = "made"]
  /\ UNCHANGED <<inputVars, jobVars, swapVars>>

\* a block is allocated for given sizes
ConstructSized ==
  /\ run.at = "start"
  /\ block' = [block EXCEPT !.made = "sized",
                            !.ext = AllocExtents(block.n, NumGhosts)]
  /\ run' = [run EXCEPT !.at = "made"]
  /\ UNCHANGED <<inputVars, jobVars, swapVars>>

\* a worker receives the block: it unpacks the sizes and resizes its arrays
\* before it unpacks the data
RecvUnpackGeomMPI ==
  /\ run.at = "start"
  /\ block' = [block EXCEPT !.made = "received",
                            !.ext = CleanResizeVecs(block.n, NumGhosts)]
  /\ run' = [run EXCEPT !.at = "made"]
  /\ UNCHANGED <<inputVars, jobVars, swapVars>>

NextAlloc == ConstructFromGrid \/ ConstructSized \/ RecvUnpackGeomMPI

SpecAlloc == InitAlloc /\ [][NextAlloc]_vars

\* C20 as stated: however a block is made, residual, dt, avgWaveSpeed and
\* wallDist have extent (nI, nJ, nK), state, centre and volume have extent
\* (nI + 2 Gh, nJ + 2 Gh, nK + 2 Gh), and every face array has that padded
\* extent with one more entry along its own direction.
C20_ArrayExtents ==
  run.at = "made" =>
    LET n == block.n
        padded == <<n[1] + 2 * NumGhosts, n[2] + 2 * NumGhosts,
                    n[3] + 2 * NumGhosts>>
    IN /\ \A a \in {"residual", "dt", "avgWaveSpeed", "wallDist"} :
            block.ext[a] = n
       /\ \A a \in {"state", "center", "vol"} : block.ext[a] = padded
       /\ \A a \in {"fAreaI", "fCenterI"} :
            block.ext[a] = [padded EXCEPT ![1] = @ + 1]
       /\ \A a \in {"fAreaJ", "fCenterJ"} :
            block.ext[a] = [padded EXCEPT ![2] = @ + 1]
       /\ \A a \in {"fAreaK", "fCenterK"} :
            block.ext[a] = [padded EXCEPT ![3] = @ + 1]

\* ------------------------------------------------------------------------
\* Halo study: the cell-level state swap of a ghost fill with the blocks of
\* a layout spread over the workers.  The geometry swap is done by the
\* coordinator on the whole grid; the records are then broadcast and every
\* worker goes through the list of records with its own blocks.
\* ------------------------------------------------------------------------
\* the block -> worker assignments of a layout: contiguous groups, the
\* first block on the coordinator
HaloRanks(kind) ==
  IF kind = "pair" THEN {<<0, 0>>, <<0, 1>>}
  ELSE {<<0, 0, 0>>, <<0, 0, 1>>, <<0, 1, 1>>, <<0, 1, 2>>}

AllBorder == <<TRUE, TRUE, TRUE, TRUE>>

\* the border flags of a record a worker other than the coordinator holds:
\* the broadcast of the records carries ten groups of integers (rank, block,
\* localBlock, boundary, d1Start, d1End, d2Start, d2End, constSurf,
\* orientation) and not the flags, which stay as the construction of the
\* record left them; the study takes every flag clear and every flag set
DefaultBorders == {NoBorder, AllBorder}

HaloScenarios ==
  {[kind |-> s.kind, o |-> s.o, b1 |-> s.b1, b2 |-> s.b2, ord |-> s.ord,
    rank |-> rk, dflt |-> df] :
     s \in {x \in Scenarios : x.kind = "tee" \/ (x.b1 % 2 = 0 /\ x.b2 = 1)},
     rk \in HaloRanks("pair") \cup HaloRanks("tee"),
     df \in DefaultBorders}

\* a layout with its assignment; with every block on the coordinator no
\* copy of a record is used; blocks 1 and 2 of the "t" are alike, so the
\* record of block 1 is listed before that of block 2
HaloInputs ==
  {s \in HaloScenarios :
     /\ s.rank \in HaloRanks(s.kind)
     /\ s.kind = "tee" =>
          \E x, y \in 1..3 : x < y /\ s.ord[x] = 1 /\ s.ord[y] = 2
     /\ (\A n \in DOMAIN s.rank : s.rank[n] = ROOT) => s.dflt = NoBorder}

InitHalo ==
  /\ scen \in HaloInputs
  /\ states = IF scen.kind = "pair" THEN PairBlocks(scen.o, scen.b1, scen.b2)
              ELSE TeeBlocks
  /\ connections = IF scen.kind = "pair"
                   THEN <<PairRecord(scen.o, scen.b1, scen.b2)>>
                   ELSE TeeRecords
  /\ order = scen.ord
  /\ phase = "geom"
  /\ step = 0
  /\ lastPut = <<>>

\* the workers that hold a block of the layout
HaloProcs == {scen.rank[n] : n \in DOMAIN scen.rank}

\* the record with number k (1-based) as worker w holds it
ConnOf(w, k) ==
  IF w = ROOT THEN connections[k]
  ELSE [connections[k] EXCEPT !.border = <<scen.dflt, scen.dflt>>]

\* the record worker w is at in its pass over the list
HaloRecord(w) == ConnOf(w, order[ii[w] + 1])

\* rank of the worker that holds a side of a record
RankOf(r, side) == scen.rank[r.block[side] + 1]

\* the cells of the receiving block that the insertion of a state slice
\* assigns
StateCellsWritten(r, d3, numG) ==
  {GetSwapLoc(l[1], l[2], l[3], r, TRUE) : l \in PutLoop(r, d3, numG)}

\* what an insertion of a state slice did: the record (number in the list),
\* the side and block that received, the worker, the cells assigned
PutLog(w, k, side, r, adj) ==
  [worker |-> w, rec |-> k, side |-> side, blk |-> r.block[side],
   cells |-> StateCellsWritten(adj, NumGhosts, NumGhosts)]

\* the records are broadcast after the geometry swaps; the workers start
\* their passes over the list
BroadcastConnections ==
  /\ phase = "geom"
  /\ step = Len(order)
  /\ phase' = "halo"
  /\ pc' = [w \in Procs |-> IF w \in HaloProcs THEN "bc2" ELSE "idle"]
  /\ lastPut' = <<>>
  /\ UNCHANGED <<scen, states, connections, order, step>>
  /\ UNCHANGED <<cfg, grid, conn, loadBal, err, ii, numProcBlock, connL, localBlocks,
                 chan, sending, msgId, did, recvInto>>
  /\ UNCHANGED blockVars

\* both sides of the record on this worker: swap without messages
CellSwapStateSlice(w) ==
  /\ phase = "halo"
  /\ pc[w] = "bc2"
  /\ ii[w] < Len(order)
  /\ RankOf(HaloRecord(w), 1) = w /\ RankOf(HaloRecord(w), 2) = w
  /\ LET r == HaloRecord(w)
         b1 == states[r.block[1] + 1]
         b2 == states[r.block[2] + 1]
         state1 == SliceOf(b1.state, SliceIndices(r, 1, NumGhosts))
         state2 == SliceOf(b2.state, SliceIndices(r, 2, NumGhosts))
         inter1 == AdjustForSlice(r, FALSE, NumGhosts)
         inter2 == AdjustForSlice(r, TRUE, NumGhosts)
     IN IF SliceFits(state2, inter2, NumGhosts) /\ SliceFits(state1, inter1, NumGhosts)
        THEN /\ states' = [states EXCEPT
                             ![r.block[1] + 1].state =
                                PutStateSlice(b1, state2, inter2, NumGhosts, NumGhosts),
                             ![r.block[2] + 1].state =
                                PutStateSlice(b2, state1, inter1, NumGhosts, NumGhosts)]
             /\ lastPut' = <<PutLog(w, order[ii[w] + 1], 1, r, inter2),
                             PutLog(w, order[ii[w] + 1], 2, r, inter1)>>
             /\ ii' = [ii EXCEPT ![w] = @ + 1]
             /\ pc' = pc
        ELSE /\ pc' = [pc EXCEPT ![w] = "exited"]
             /\ UNCHANGED <<states, lastPut, ii>>
  /\ UNCHANGED <<scen, connections, order, phase, step>>
  /\ UNCHANGED <<cfg, grid, conn, loadBal, err, numProcBlock, connL, localBlocks,
                 chan, sending, msgId, did, recvInto>>
  /\ UNCHANGED blockVars

\* the side of a record that is on worker w when the other is not
HaloSide(r, w) == IF RankOf(r, 1) = w THEN 1 ELSE 2

\* one side of the record on this worker: the slice of the local block is
\* taken and sent to the worker of the other side
CellSwapSliceMPI(w) ==
  /\ phase = "halo"
  /\ pc[w] = "bc2"
  /\ ii[w] < Len(order)
  /\ RankOf(HaloRecord(w), 1) # RankOf(HaloRecord(w), 2)
  /\ w \in {RankOf(HaloRecord(w), 1), RankOf(HaloRecord(w), 2)}
  /\ LET r == HaloRecord(w)
         side == HaloSide(r, w)
         b == states[r.block[side] + 1]
         state == SliceOf(b.state, SliceIndices(r, side, NumGhosts))
     IN chan' = Post(chan, w, RankOf(r, 3 - side),
                     [tag |-> SliceTag, rec |-> order[ii[w] + 1], slice |-> state])
  /\ pc' = [pc EXCEPT ![w] = "bc2recv"]
  /\ UNCHANGED swapVars
  /\ UNCHANGED <<cfg, grid, conn, loadBal, err, ii, numProcBlock, connL,
                 localBlocks, sending, msgId, did, recvInto>>
  /\ UNCHANGED blockVars

\* the slice of the partner arrives and is inserted into the local block
CellPackSwapUnpackMPI(w) ==
  /\ phase = "halo"
  /\ pc[w] = "bc2recv"
  /\ LET r == HaloRecord(w)
         side == HaloSide(r, w)
         peer == RankOf(r, 3 - side)
         b == states[r.block[side] + 1]
         interAdj == AdjustForSlice(r, side = 1, NumGhosts)
     IN /\ chan[<<peer, w>>] # <<>>
        /\ LET state == Head(chan[<<peer, w>>]).slice
           IN IF SliceFits(state, interAdj, NumGhosts)
              THEN /\ states' = [states EXCEPT ![r.block[side] + 1].state =
                                   PutStateSlice(b, state, interAdj, NumGhosts, NumGhosts)]
                   /\ lastPut' = <<PutLog(w, order[ii[w] + 1], side, r, interAdj)>>
                   /\ ii' = [ii EXCEPT ![w] = @ + 1]
                   /\ pc' = [pc EXCEPT ![w] = "bc2"]
              ELSE /\ pc' = [pc EXCEPT ![w] = "exited"]
                   /\ UNCHANGED <<states, lastPut, ii>>
        /\ chan' = [chan EXCEPT ![<<peer, w>>] = Tail(@)]
  /\ UNCHANGED <<scen, connections, order, phase, step>>
  /\ UNCHANGED <<cfg, grid, conn, loadBal, err, numProcBlock, connL, localBlocks,
                 sending, msgId, did, recvInto>>
  /\ UNCHANGED blockVars

\* neither side of the record on this worker: on to the next record
CellSkipConnection(w) ==
  /\ phase = "halo"
  /\ pc[w] = "bc2"
  /\ ii[w] < Len(order)
  /\ w \notin {RankOf(HaloRecord(w), 1), RankOf(HaloRecord(w), 2)}
  /\ ii' = [ii EXCEPT ![w] = @ + 1]
  /\ UNCHANGED swapVars
  /\ UNCHANGED <<cfg, grid, conn, loadBal, err, pc, numProcBlock, connL,
                 localBlocks, chan, sending, msgId, did, recvInto>>
  /\ UNCHANGED blockVars

\* the worker is through the list
CellSwapPassDone(w) ==
  /\ phase = "halo"
  /\ pc[w] = "bc2"
  /\ ii[w] = Len(order)
  /\ pc' = [pc EXCEPT ![w] = "bc3"]
  /\ UNCHANGED swapVars
  /\ UNCHANGED <<cfg, grid, conn, loadBal, err, ii, numProcBlock, connL,
                 localBlocks, chan, sending, msgId, did, recvInto>>
  /\ UNCHANGED blockVars

NextHalo ==
  \/ SwapGeomSlice
  \/ BroadcastConnections
  \/ \E w \in Procs : CellSwapStateSlice(w)
  \/ \E w \in Procs : CellSwapSliceMPI(w)
  \/ \E w \in Procs : CellPackSwapUnpackMPI(w)
  \/ \E w \in Procs : CellSkipConnection(w)
  \/ \E w \in Procs : CellSwapPassDone(w)

InitHaloStudy == InitHalo /\ JobIdle /\ BlockIdle

SpecHalo == InitHaloStudy /\ [][NextHalo]_vars

\* ------------------------------------------------------------------------
\* Properties of the state swaps of a ghost fill
\* ------------------------------------------------------------------------
\* the blocks (1-based) whose arrays a step changes
BlocksChanged == {n \in 1..Len(states) : states'[n] # states[n]}

\* worker w received the slice of its partner in this step: over a message,
\* or from a block of its own
SliceReceived(w, n) ==
  \E p \in 1..Len(lastPut') :
    /\ lastPut'[p].worker = w
    /\ lastPut'[p].blk = n - 1
    /\ LET r == connections[lastPut'[p].rec]
           peer == RankOf(r, 3 - lastPut'[p].side)
       IN IF peer = w THEN chan' = chan
          ELSE /\ chan[<<peer, w>>] # <<>>
               /\ Head(chan[<<peer, w>>]).rec = lastPut'[p].rec
               /\ chan' = [chan EXCEPT ![<<peer, w>>] = Tail(@)]

\* C21: a halo exchange, in-process or between workers, modifies only ghost
\* cells of the receiving block: no physical cell's state of any block is
\* assigned or changed by a swap, and the arrays of a block change only in a
\* step of the worker that owns it, by the slice it receives in that step.
C21_OnlyGhostsOfReceiver ==
  [][phase = "halo" =>
       /\ \A n \in 1..Len(states) :
            /\ states'[n].geom = states[n].geom
            /\ \A c \in DOMAIN states[n].state :
                 IsPhysical(states[n].n, c)
                   => states'[n].state[c] = states[n].state[c]
       /\ \A n \in BlocksChanged :
            /\ ii'[scen.rank[n]] = ii[scen.rank[n]] + 1
            /\ \A w \in Procs \ {scen.rank[n]} : ii'[w] = ii[w] /\ pc'[w] = pc[w]
            /\ SliceReceived(scen.rank[n], n)
       /\ lastPut' # lastPut =>
            \A p \in 1..Len(lastPut') :
              \A c \in lastPut'[p].cells :
                ~IsPhysical(states[lastPut'[p].blk + 1].n, c)]_vars

\* a worker other than the coordinator has received a slice over a message
\* and holds states of its partner in ghost cells of its block
C21_Witness ==
  /\ phase = "halo"
  /\ Len(lastPut) = 1
  /\ lastPut[1].worker # ROOT
  /\ \E c \in lastPut[1].cells :
       states[lastPut[1].blk + 1].state[c] \notin {0, Garbage, Token(lastPut[1].blk, c)}

\* ------------------------------------------------------------------------
\* Split study: a block cut in two along a plane, and two blocks joined
\* ------------------------------------------------------------------------
\* largest number of cells along a direction of a block that is split
MaxSplit == 3

\* the arrays of a block
ArraySeq ==
  <<"state", "vol", "center", "avgWaveSpeed", "dt", "wallDist", "residual",
    "fAreaI", "fAreaJ", "fAreaK", "fCenterI", "fCenterJ", "fCenterK">>

ArrayNames == Range(ArraySeq)

\* the arrays that hold ghost cells
IsPadded(a) == a \notin {"avgWaveSpeed", "dt", "wallDist", "residual"}

\* the indices lo <= c < hi
Box(lo, hi) ==
  (lo[1]..(hi[1] - 1)) \X (lo[2]..(hi[2] - 1)) \X (lo[3]..(hi[3] - 1))

Origin == <<0, 0, 0>>

\* the value block id holds at index c of array a; 0 is an element that
\* was allocated and never assigned
ArrayToken(id, a, c) ==
  1 + 100000 * id + 1000 * (CHOOSE x \in DOMAIN ArraySeq : ArraySeq[x] = a)
    + 100 * c[1] + 10 * c[2] + c[3]

\* a block of n cells allocated for its sizes
SizedBlock(n) ==
  [n |-> n,
   arr |-> [a \in ArrayNames |->
              [c \in Box(Origin, AllocExtents(n, NumGhosts)[a]) |-> 0]]]

\* a block of n cells that holds data in every element
FilledBlock(id, n) ==
  [n |-> n,
   arr |-> [a \in ArrayNames |->
              [c \in Box(Origin, AllocExtents(n, NumGhosts)[a]) |->
                 ArrayToken(id, a, c)]]]

\* copy of the sub-extent lo <= c < hi of an array, indexed from 0
Slice(arr, lo, hi) ==
  [shape |-> <<hi[1] - lo[1], hi[2] - lo[2], hi[3] - lo[3]>>,
   val |-> [c \in Box(Origin, <<hi[1] - lo[1], hi[2] - lo[2], hi[3] - lo[3]>>) |->
              At(arr, <<lo[1] + c[1], lo[2] + c[2], lo[3] + c[3]>>)]]

\* the sub-extent lo <= c < hi of an array written from a slice; the shape
\* of the slice has to be that of the sub-extent
Insert(arr, lo, hi, src) ==
  IF src.shape # <<hi[1] - lo[1], hi[2] - lo[2], hi[3] - lo[3]>>
       \/ ~(Box(lo, hi) \subseteq DOMAIN arr)
  THEN [ok |-> FALSE, val |-> arr]
  ELSE [ok |-> TRUE,
        val |-> [c \in DOMAIN arr |->
                   IF c \in Box(lo, hi)
                   THEN src.val[<<c[1] - lo[1], c[2] - lo[2], c[3] - lo[3]>>]
                   ELSE arr[c]]]

\* sizes of a block with the number of cells along direction d replaced
WithDim(n, d, m) == [n EXCEPT ![d] = m]

\* extents of array a of a block of n cells
ExtentOf(a, n) == AllocExtents(n, NumGhosts)[a]

\* Split along direction d (1..3) at face ind: the lower and the upper block
Split(b, d, ind) ==
  LET n2 == WithDim(b.n, d, b.n[d] - ind)
      n1 == WithDim(b.n, d, b.n[d] - n2[d])
      blk1 == SizedBlock(n1)
      blk2 == SizedBlock(n2)
      \* start of the upper part in the arrays of the block that is split
      minP2(a) == WithDim(Origin, d, IF IsPadded(a) THEN ind ELSE ind + NumGhosts)
      low(a) == Insert(blk1.arr[a], Origin, ExtentOf(a, n1),
                       Slice(b.arr[a], Origin, ExtentOf(a, n1)))
      upp(a) == Insert(blk2.arr[a], Origin, ExtentOf(a, n2),
                       Slice(b.arr[a], minP2(a), ExtentOf(a, b.n)))
  IN [ok |-> \A a \in ArrayNames : low(a).ok /\ upp(a).ok,
      lower |-> [n |-> n1, arr |-> [a \in ArrayNames |-> low(a).val]],
      upper |-> [n |-> n2, arr |-> [a \in ArrayNames |-> upp(a).val]]]

\* Join along direction d of a lower block with an upper block
Join(lower, upper, d) ==
  LET nNew == WithDim(lower.n, d, lower.n[d] + upper.n[d])
      newBlk == SizedBlock(nNew)
      face(a) == IF ExtentOf(a, nNew)[d] = nNew[d] + 2 * NumGhosts + 1 THEN 1 ELSE 0
      \* end of the part of the lower block that is copied: its upper
      \* ghosts are left out
      maxL(a) == WithDim(ExtentOf(a, nNew), d,
                         IF IsPadded(a) THEN lower.n[d] + NumGhosts + face(a)
                         ELSE lower.n[d])
      \* start of the part of the joined block the upper block goes into
      minNew(a) == WithDim(Origin, d,
                           IF IsPadded(a) THEN lower.n[d] + NumGhosts + 1
                           ELSE lower.n[d] + 1)
      \* start of the part of the upper block that is copied
      minU(a) == WithDim(Origin, d, IF IsPadded(a) THEN NumGhosts ELSE 0)
      low(a) == Insert(newBlk.arr[a], Origin, maxL(a),
                       Slice(lower.arr[a], Origin, maxL(a)))
      upp(a) == Insert(low(a).val, minNew(a), ExtentOf(a, nNew),
                       Slice(upper.arr[a], minU(a), ExtentOf(a, upper.n)))
  IN [ok |-> \A a \in ArrayNames : low(a).ok /\ upp(a).ok,
      blk |-> [n |-> nNew, arr |-> [a \in ArrayNames |-> upp(a).val]]]

\* a block with the direction and the face of the cut, or the two parts of
\* such a block as two blocks with data of their own
SplitInputs ==
  {[study |-> "split", from |-> f, n |-> n, d |-> d, ind |-> x] :
     f \in {"whole", "halves"},
     n \in (1..MaxSplit) \X (1..MaxSplit) \X (1..MaxSplit),
     d \in 1..3, x \in 1..(MaxSplit - 1)}

InitSplit ==
  /\ inputVars \in {s \in SplitInputs : s.ind < s.n[s.d]}
  /\ block = IF inputVars.from = "whole"
             THEN [whole |-> FilledBlock(0, inputVars.n), parts |-> <<>>]
             ELSE [whole |-> FilledBlock(0, inputVars.n),
                   parts |-> <<FilledBlock(1, WithDim(inputVars.n, inputVars.d,
                                                      inputVars.ind)),
                               FilledBlock(2, WithDim(inputVars.n, inputVars.d,
                                 inputVars.n[inputVars.d] - inputVars.ind))>>]
  /\ run = [at |-> IF inputVars.from = "whole" THEN "start" ELSE "split",
            err |-> "none"]
  /\ JobIdle
  /\ SwapIdle

\* the block is split: the lower part takes its place, the upper part is
\* a new block
SplitBlock ==
  /\ run.at = "start"
  /\ LET s == Split(block.whole, inputVars.d, inputVars.ind)
     IN IF s.ok
        THEN /\ block' = [block EXCEPT !.parts = <<s.lower, s.upper>>]
             /\ run' = [run EXCEPT !.at = "split"]
        ELSE /\ block' = block
             /\ run' = [at |-> "exited", err |-> "ShapeMismatch"]
  /\ UNCHANGED <<inputVars, jobVars, swapVars>>

\* the upper part is joined to the lower part
JoinBlocks ==
  /\ run.at = "split"
  /\ LET j == Join(block.parts[1], block.parts[2], inputVars.d)
     IN IF j.ok
        THEN /\ block' = [block EXCEPT !.parts = <<j.blk>>]
             /\ run' = [run EXCEPT !.at = "joined"]
        ELSE /\ block' = block
             /\ run' = [at |-> "exited", err |-> "ShapeMismatch"]
  /\ UNCHANGED <<inputVars, jobVars, swapVars>>

NextSplit == SplitBlock \/ JoinBlocks

SpecSplit == InitSplit /\ [][NextSplit]_vars

\* C22: Join is the inverse of Split: for every direction and every cut
\* 0 < ind < n, splitting a block and joining the two parts gives a block
\* of the same sizes with every array equal element for element; no shape
\* mismatch occurs and no element is left unwritten.
C22_JoinInvertsSplit ==
  inputVars.from = "whole" =>
    /\ run.err = "none"
    /\ run.at = "split" =>
         /\ block.parts[1].n[inputVars.d] = inputVars.ind
         /\ block.parts[2].n[inputVars.d] = inputVars.n[inputVars.d] - inputVars.ind
    /\ run.at = "joined" => block.parts[1] = block.whole

\* ------------------------------------------------------------------------
\* Ghost geometry study: centres of the ghost cells behind a surface.  The
\* cells along the normal of the surface are followed; coordinates are the
\* component along the normal, in half units so that the centre of a cell,
\* midway between the centres of its two faces, is a whole number.
\* ------------------------------------------------------------------------
\* largest number of cells along the normal, and largest width of a cell
MaxNormal == 3
MaxWidth == 2

\* a centre that was not assigned
NoCenter == 0 - 1000

\* sum of the widths of the first m cells
RECURSIVE WidthSum(_, _)
WidthSum(w, m) == IF m = 0 THEN 0 ELSE w[m] + WidthSum(w, m - 1)

\* face centres and cell centres along the normal of a block of cells of
\* widths w, padded with ghosts that have no geometry yet
LineGeom(w) ==
  LET n == Len(w)
  IN [n |-> n,
      fCenter |-> [f \in 0..(n + 2 * NumGhosts) |->
                     IF f >= NumGhosts /\ f <= n + NumGhosts
                     THEN 2 * WidthSum(w, f - NumGhosts) ELSE NoCenter],
      center |-> [c \in 0..(n + 2 * NumGhosts - 1) |->
                    IF c >= NumGhosts /\ c < n + NumGhosts
                    THEN 2 * WidthSum(w, c - NumGhosts) + w[c - NumGhosts + 1]
                    ELSE NoCenter]]

\* indices of the ghost cells (g1, g2), the interior cells (i1, i2), the
\* boundary face (bnd) and the faces (fg1, fg2, fi1, fi2) at a surface
GeomIndices(n, upper) ==
  LET max == n - 1 + NumGhosts
  IN IF upper
     THEN [g2 |-> max + 2, g1 |-> max + 1, i1 |-> max, i2 |-> max - 1,
           fg2 |-> max + 3, fg1 |-> max + 2, bnd |-> max + 1,
           fi1 |-> max, fi2 |-> max - 1]
     ELSE [g2 |-> 0, g1 |-> 1, i1 |-> 2, i2 |-> 3,
           fg2 |-> 0, fg1 |-> 1, bnd |-> 2, fi1 |-> 3, fi2 |-> 4]

\* distance the centre of the first interior cell is moved by to give the
\* centre of the second ghost cell
SecondMove(g, x) ==
  IF g.n < 2 THEN 2 * (g.fCenter[x.bnd] - g.fCenter[x.fi1])
  ELSE g.fCenter[x.bnd] - g.fCenter[x.fi2]

\* centres of the ghost cells and of their faces behind a surface that is
\* not an inter-block boundary
GhostCenters(g, upper) ==
  LET x == GeomIndices(g.n, upper)
      dist1 == g.fCenter[x.bnd] - g.fCenter[x.fi1]
      dist2 == SecondMove(g, x)
  IN [g EXCEPT !.center[x.g1] = g.center[x.i1] + dist1,
               !.fCenter[x.fg1] = g.fCenter[x.bnd] + dist1,
               !.center[x.g2] = g.center[x.i1] + dist2,
               !.fCenter[x.fg2] = g.fCenter[x.bnd] + dist2]

\* the widths of the cells along the normal, the surface and its condition
GeomInputs ==
  {[study |-> "geom", w |-> w, surf |-> s, bcType |-> t] :
     w \in UNION {[1..m -> 1..MaxWidth] : m \in 1..MaxNormal},
     s \in 1..6, t \in {"slipWall", "subsonicInflow", "interblock"}}

InitGeom ==
  /\ inputVars \in GeomInputs
  /\ block = LineGeom(inputVars.w)
  /\ run = [at |-> "start"]
  /\ JobIdle
  /\ SwapIdle

\* AssignGhostCellsGeom for the surface of the study
AssignGhostCenters ==
  /\ run.at = "start"
  /\ block' = IF inputVars.bcType # "interblock"
              THEN GhostCenters(block, inputVars.surf % 2 = 0)
              ELSE block
  /\ run' = [run EXCEPT !.at = "geom"]
  /\ UNCHANGED <<inputVars, jobVars, swapVars>>

SpecGeom == InitGeom /\ [][AssignGhostCenters]_vars

\* the k-th interior cell from the surface, and the k-th ghost cell
InteriorCell(n, upper, k) ==
  IF upper THEN n + NumGhosts - k ELSE NumGhosts + k - 1
GhostCell(n, upper, k) ==
  IF upper THEN n + NumGhosts + k - 1 ELSE NumGhosts - k
BoundaryFace(n, upper) == IF upper THEN n + NumGhosts ELSE NumGhosts

\* C23: after AssignGhostCellsGeom, for every patch that is not an
\* inter-block boundary and both ghost layers k = 1, 2, the centre of the
\* ghost cell is the mirror image of the centre of the k-th interior cell
\* through the centre of the boundary face:
\* center[g_k] - fCenter[bnd] = fCenter[bnd] - center[i_k].
C23_CentersMirrored ==
  (run.at = "geom" /\ inputVars.bcType # "interblock") =>
    LET up == inputVars.surf % 2 = 0
        bnd == block.fCenter[BoundaryFace(block.n, up)]
    IN \A k \in 1..NumGhosts :
         k <= block.n =>
           block.center[GhostCell(block.n, up, k)] - bnd
             = bnd - block.center[InteriorCell(block.n, up, k)]

\* ------------------------------------------------------------------------
\* Properties of the exchange between the workers
\* ------------------------------------------------------------------------
\* the channels that hold a slice sent and not received
SlicesInFlight ==
  {p \in DOMAIN chan : \E n \in DOMAIN chan[p] : chan[p][n].tag = SliceTag}

\* C24: the records being listed in the same order on every worker and the
\* send-receive of a record blocking until the peer takes part, the
\* inter-block phase terminates on every worker for every assignment of the
\* blocks to the workers: no worker waits for ever for a peer, and once all
\* workers are through the list no slice is left unreceived.
C24_SwapPhaseTerminates ==
  /\ \A w \in Procs : (pc[w] \in {"bc2", "bc2recv"}) ~> (pc[w] = "bc3")
  /\ []((\A w \in Procs : SwapPassComplete(w)) => SlicesInFlight = {})

\* every worker is through the list and has exchanged slices with a peer
C24_Witness ==
  /\ \A w \in Procs : SwapPassComplete(w) /\ "mpi" \in Range(did[w])
  /\ SlicesInFlight = {}

\* worker w takes up a record of the list in this step: it handles or skips
\* it, or sends the slice of its side
TakesUpRecord(w) ==
  \/ Len(did'[w]) > Len(did[w])
  \/ pc[w] = "bc2" /\ pc'[w] = "bc2recv"

\* the edge pass is applied to a block of worker w in this step
EdgePassApplied(w) ==
  /\ DOMAIN localBlocks'[w] = DOMAIN localBlocks[w]
  /\ \E b \in DOMAIN localBlocks[w] :
       localBlocks'[w][b].edge /\ ~localBlocks[w][b].edge

\* C25: within a ghost fill of a worker, phase 1 has been applied to every
\* local block before the worker takes up the first record of the list, and
\* the worker has been through every record of the list before the edge pass
\* is applied to any of its blocks.
C25_PhasesInOrder ==
  [][\A w \in Procs :
       /\ TakesUpRecord(w) =>
            \A b \in DOMAIN localBlocks[w] : localBlocks[w][b].bc1
       /\ EdgePassApplied(w) =>
            /\ Len(did[w]) = Len(connL[w])
            /\ \A b \in DOMAIN localBlocks[w] : localBlocks[w][b].bc1]_vars

\* a worker with two blocks has been through the list, a record of which it
\* had to handle, and has applied the edge pass to a block
C25_Witness ==
  \E w \in Procs :
    /\ Len(localBlocks[w]) >= 2
    /\ \E b \in DOMAIN localBlocks[w] : localBlocks[w][b].edge
    /\ \E n \in 1..Len(connL[w]) : LocalSides(connL[w][n], w) # {}
    /\ Len(did[w]) = Len(connL[w])

\* ------------------------------------------------------------------------
\* Properties of the edge-adjustment flags in the halo study
\* ------------------------------------------------------------------------
\* the cells of the receiving block that an insertion of a state slice for
\* side `side` of record k has to assign by the flags of the record as the
\* geometry swaps left it: the whole region of the slice without the strips
\* of ghost cells at the flagged edges of the patch
CellsDue(k, side) ==
  LET adj == AdjustForSlice(connections[k], side = 1, NumGhosts)
      ext == <<adj.d1End[1] - adj.d1Start[1], adj.d2End[1] - adj.d2Start[1]>>
  IN {GetSwapLoc(l[1], l[2], l[3], adj, TRUE) :
        l \in {x \in PutLoopWholeSlice(adj, NumGhosts, NumGhosts) :
                 \A e \in EdgesOf(x, ext) : ~connections[k].border[side][e + 1]}}

\* C26: every edge-adjustment flag returned by either side of a geometry
\* swap is or-ed into the record (no flag is ever cleared), and in every
\* later state swap over that record no cell of the strip of ghost cells at
\* a flagged patch edge is written in the receiving block, while every other
\* cell of the region of the slice is written.
C26_FlagsKeptAndHonoured ==
  /\ [][/\ \A k \in DOMAIN connections : \A n \in 1..2 : \A e \in 1..4 :
             connections[k].border[n][e] => connections'[k].border[n][e]
        /\ (phase = "geom" /\ step' = step + 1) =>
             \A n \in 1..2 : \A e \in 1..4 :
               connections'[order[step + 1]].border[n][e]
                 = (connections[order[step + 1]].border[n][e]
                      \/ lastPut'[n].adjEdge[e])]_vars
  /\ [](phase = "halo" =>
          \A n \in 1..Len(lastPut) :
            lastPut[n].cells = CellsDue(lastPut[n].rec, lastPut[n].side))

\* what the in-process swap of record k puts into the block of side `side`,
\* given the slice of the other side: the insertion with the record of the
\* list, prepared for the receiving side
InProcessPut(k, side, slice) ==
  PutStateSlice(states[connections[k].block[side] + 1], slice,
                AdjustForSlice(connections[k], side = 1, NumGhosts),
                NumGhosts, NumGhosts)

\* C27: for a record whose blocks are on different workers, the swap by
\* messages writes the ghost states that the in-process swap of the same
\* record would have written: the slice a worker sends is the slice the
\* in-process swap takes from its block, and the block of the worker that
\* receives is after the insertion what the in-process insertion makes of it.
C27_MPISwapAsInProcess ==
  [][\A w \in Procs :
       LET k == order[ii[w] + 1]
           r == connections[k]
           side == HaloSide(r, w)
           peer == RankOf(r, 3 - side)
       IN /\ (phase = "halo" /\ pc[w] = "bc2" /\ pc'[w] = "bc2recv") =>
               chan'[<<w, peer>>][Len(chan'[<<w, peer>>])].slice
                 = SliceOf(states[r.block[side] + 1].state,
                           SliceIndices(r, side, NumGhosts))
          /\ (phase = "halo" /\ pc[w] = "bc2recv" /\ pc'[w] = "bc2") =>
               states'[r.block[side] + 1].state
                 = InProcessPut(k, side, Head(chan[<<peer, w>>]).slice)]_vars

\* ------------------------------------------------------------------------
\* Properties of the remap of the second patch
\* ------------------------------------------------------------------------
\* what the remap of a record does to the loop indices, read off the
\* indices it gives in the slice of the second patch: directions 1 and 2
\* exchanged, direction 1 of the patch run through backwards, direction 2
\* run through backwards
RemapKind(r) ==
  LET adj == AdjustForSlice(r, TRUE, NumGhosts)
      a1 == Axis(Direction1(adj.boundary[2]))
      a2 == Axis(Direction2(adj.boundary[2]))
      at0 == GetSwapLoc(0, 0, 0, adj, FALSE)
      at1 == GetSwapLoc(1, 0, 0, adj, FALSE)
      at2 == GetSwapLoc(0, 1, 0, adj, FALSE)
      sw == at1[a1] = at0[a1]
  IN [swapped |-> sw,
      rev1 |-> IF sw THEN at2[a1] < at0[a1] ELSE at1[a1] < at0[a1],
      rev2 |-> IF sw THEN at1[a2] < at0[a2] ELSE at2[a2] < at0[a2]]

\* the remap of a record takes the loop indices one-to-one onto the indices
\* of the slice of the second patch
RemapOneToOne(r) ==
  LET adj == AdjustForSlice(r, TRUE, NumGhosts)
      loops == PutLoopWholeSlice(adj, NumGhosts, NumGhosts)
      slice == SliceOf(states[r.block[2] + 1].state, SliceIndices(r, 2, NumGhosts))
  IN /\ \A x, y \in loops :
          GetSwapLoc(x[1], x[2], x[3], adj, FALSE)
            = GetSwapLoc(y[1], y[2], y[3], adj, FALSE) => x = y
     /\ {GetSwapLoc(x[1], x[2], x[3], adj, FALSE) : x \in loops} = DOMAIN slice.val

\* C28: the remap applied for the second patch of a pair is a function of
\* the orientation alone: whether the directions are exchanged and which of
\* them is reversed is the same whichever of i, j, k is the normal of the
\* patch, and the remap is one-to-one from the loop indices onto the region
\* of the slice.
C28_RemapByOrientationAlone ==
  (scen.kind = "pair" /\ phase \in {"state", "done"}) =>
     /\ \A b \in 1..6 :
          RemapKind(PairRecord(scen.o, scen.b1, b)) = RemapKind(connections[1])
     /\ RemapOneToOne(connections[1])

\* ------------------------------------------------------------------------
\* Implicit study: the sweeps of ImplicitUpdate on every worker, three
\* blocks in a row spread over the workers, from the start of the loop over
\* the sweeps.  The update du of a block is followed by its version: the
\* number of forward and backward sweeps that went into it.
\* ------------------------------------------------------------------------
\* largest number of sweeps configured
MaxMatrixSweeps == 2

\* the block -> worker assignments of the study
ImplicitRanks ==
  {<<0, 0, 0>>, <<0, 0, 1>>, <<0, 1, 1>>, <<0, 1, 0>>, <<0, 1, 2>>}

ImplicitInputs ==
  [study : {"implicit"}, sweeps : 1..MaxMatrixSweeps, rank : ImplicitRanks]

\* position of block b (from 0) among the blocks of its worker
LocalIndex(rk, b) == Cardinality({m \in 1..b : rk[m] = rk[b + 1]})

\* the records of the blocks in a row: block 0 - block 1, block 1 - block 2
ImplicitConn(rk) ==
  [n \in 1..(Len(rk) - 1) |->
     [block |-> <<n - 1, n>>, rank |-> <<rk[n], rk[n + 1]>>,
      localBlock |-> <<LocalIndex(rk, n - 1), LocalIndex(rk, n)>>]]

\* the updates of the blocks of a worker as InitializeMatrixUpdate left
\* them, nothing yet in the ghost cells of the records
ImplicitBlocks(rk, w) ==
  LET mine == {b \in 0..(Len(rk) - 1) : rk[b + 1] = w}
  IN [m \in 1..Cardinality(mine) |->
        [globalPos |-> CHOOSE b \in mine : LocalIndex(rk, b) = m - 1,
         du |-> 0,
         ghost |-> [n \in 1..(Len(rk) - 1) |-> 0 - 1],
         updated |-> FALSE]]

InitImplicit ==
  /\ inputVars \in ImplicitInputs
  /\ block = "none"
  /\ run = [w \in Procs |-> 0]
  /\ cfg = [nBlocks |-> 0, mode |-> "none", assign |-> <<>>, numIter |-> 0]
  /\ grid = <<>>
  /\ conn = <<>>
  /\ loadBal = [r \in Procs |-> 0]
  /\ err = "none"
  /\ pc = [r \in Procs |-> "sweep"]
  /\ ii = [r \in Procs |-> 0]
  /\ numProcBlock = [r \in Procs |-> 0]
  /\ connL = [r \in Procs |-> ImplicitConn(inputVars.rank)]
  /\ localBlocks = [r \in Procs |-> ImplicitBlocks(inputVars.rank, r)]
  /\ chan = [p \in Procs \X Procs |-> <<>>]
  /\ sending = [r \in Procs |-> 0]
  /\ msgId = 0
  /\ did = [r \in Procs |-> <<>>]
  /\ recvInto = <<>>
  /\ SwapIdle

\* what a worker notes of a step: the operation, the sweep, the record or
\* local block (from 1) and the versions of the partners' updates the
\* ghost cells of the block hold
Noted(w, op, n, seen) ==
  [did EXCEPT ![w] = Append(@, [op |-> op, sweep |-> run[w], n |-> n,
                                 seen |-> seen])]

\* the versions in the ghost cells of local block b of worker w, for the
\* records the block is a side of
GhostVersions(w, b) ==
  {localBlocks[w][b].ghost[n] :
     n \in {m \in 1..Len(connL[w]) :
              localBlocks[w][b].globalPos \in Range(connL[w][m].block)}}

\* head of the loop over the sweeps: one more sweep
StartSweep(w) ==
  /\ pc[w] = "sweep"
  /\ run[w] < inputVars.sweeps
  /\ pc' = [pc EXCEPT ![w] = "swap1"]
  /\ ii' = [ii EXCEPT ![w] = 0]
  /\ UNCHANGED <<inputVars, block, run, swapVars>>
  /\ UNCHANGED <<cfg, grid, conn, loadBal, err, numProcBlock, connL,
                 localBlocks, chan, sending, msgId, did, recvInto>>

\* SwapImplicitUpdate, both sides of the record on this worker
DuSwapSlice(w) ==
  /\ pc[w] \in {"swap1", "swap2"}
  /\ ii[w] < Len(connL[w])
  /\ Route(CurConn(w), w) = "inproc"
  /\ LET c == CurConn(w)
         b1 == c.localBlock[1] + 1
         b2 == c.localBlock[2] + 1
         u1 == localBlocks[w][b1].du
         u2 == localBlocks[w][b2].du
     IN localBlocks' = [localBlocks EXCEPT ![w] =
                          [n \in 1..Len(@) |->
                             IF n = b1 THEN [@[n] EXCEPT !.ghost[ii[w] + 1] = u2]
                             ELSE IF n = b2 THEN [@[n] EXCEPT !.ghost[ii[w] + 1] = u1]
                             ELSE @[n]]]
  /\ did' = Noted(w, pc[w], ii[w] + 1, {})
  /\ ii' = [ii EXCEPT ![w] = @ + 1]
  /\ UNCHANGED <<inputVars, block, run, swapVars>>
  /\ UNCHANGED <<cfg, grid, conn, loadBal, err, pc, numProcBlock, connL, chan,
                 sending, msgId, recvInto>>

\* SwapImplicitUpdate, one side of the record on this worker: the slice of
\* the local update is offered to the peer
DuSwapSliceMPI(w) ==
  /\ pc[w] \in {"swap1", "swap2"}
  /\ ii[w] < Len(connL[w])
  /\ Route(CurConn(w), w) \in {"mpiFirst", "mpiSecond"}
  /\ LET c == CurConn(w)
         b == c.localBlock[LocalSide(c, w)] + 1
     IN chan' = Post(chan, w, PeerRank(c, w),
                     [tag |-> SliceTag, rec |-> ii[w] + 1,
                      body |-> localBlocks[w][b].du])
  /\ pc' = [pc EXCEPT ![w] = IF @ = "swap1" THEN "swap1recv" ELSE "swap2recv"]
  /\ UNCHANGED <<inputVars, block, run, swapVars>>
  /\ UNCHANGED <<cfg, grid, conn, loadBal, err, ii, numProcBlock, connL,
                 localBlocks, sending, msgId, did, recvInto>>

\* the slice of the peer arrives and goes into the ghost cells of the
\* local update
DuPackSwapUnpackMPI(w) ==
  /\ pc[w] \in {"swap1recv", "swap2recv"}
  /\ LET c == CurConn(w)
         b == c.localBlock[LocalSide(c, w)] + 1
         q == chan[<<PeerRank(c, w), w>>]
     IN /\ q # <<>>
        /\ localBlocks' = [localBlocks EXCEPT
                             ![w][b].ghost[ii[w] + 1] = Head(q).body]
        /\ chan' = [chan EXCEPT ![<<PeerRank(c, w), w>>] = Tail(@)]
  /\ did' = Noted(w, IF pc[w] = "swap1recv" THEN "swap1" ELSE "swap2",
                  ii[w] + 1, {})
  /\ ii' = [ii EXCEPT ![w] = @ + 1]
  /\ pc' = [pc EXCEPT ![w] = IF @ = "swap1recv" THEN "swap1" ELSE "swap2"]
  /\ UNCHANGED <<inputVars, block, run, swapVars>>
  /\ UNCHANGED <<cfg, grid, conn, loadBal, err, numProcBlock, connL, sending,
                 msgId, recvInto>>

\* SwapImplicitUpdate, no side of the record on this worker
DuSkipConnection(w) ==
  /\ pc[w] \in {"swap1", "swap2"}
  /\ ii[w] < Len(connL[w])
  /\ Route(CurConn(w), w) = "none"
  /\ did' = Noted(w, pc[w], ii[w] + 1, {})
  /\ ii' = [ii EXCEPT ![w] = @ + 1]
  /\ UNCHANGED <<inputVars, block, run, swapVars>>
  /\ UNCHANGED <<cfg, grid, conn, loadBal, err, pc, numProcBlock, connL,
                 localBlocks, chan, sending, msgId, recvInto>>

\* SwapImplicitUpdate left one record short
SwapImplicitUpdateOneShort(w) ==
  /\ pc[w] \in {"swap1", "swap2"}
  /\ ii[w] >= Len(connL[w]) - 1
  /\ pc' = [pc EXCEPT ![w] = IF @ = "swap1" THEN "fwd" ELSE "bwd"]
  /\ ii' = [ii EXCEPT ![w] = 0]
  /\ UNCHANGED <<inputVars, block, run, swapVars>>
  /\ UNCHANGED <<cfg, grid, conn, loadBal, err, numProcBlock, connL,
                 localBlocks, chan, sending, msgId, did, recvInto>>

\* SwapImplicitUpdate returns: the sweep over the local blocks follows
SwapImplicitUpdate(w) ==
  /\ pc[w] \in {"swap1", "swap2"}
  /\ ii[w] = Len(connL[w])
  /\ pc' = [pc EXCEPT ![w] = IF @ = "swap1" THEN "fwd" ELSE "bwd"]
  /\ ii' = [ii EXCEPT ![w] = 0]
  /\ UNCHANGED <<inputVars, block, run, swapVars>>
  /\ UNCHANGED <<cfg, grid, conn, loadBal, err, numProcBlock, connL,
                 localBlocks, chan, sending, msgId, did, recvInto>>

\* forward sweep of one local block
LUSGS_Forward(w) ==
  /\ pc[w] = "fwd"
  /\ ii[w] < Len(localBlocks[w])
  /\ localBlocks' = [localBlocks EXCEPT ![w][ii[w] + 1].du = @ + 1]
  /\ did' = Noted(w, "fwd", ii[w] + 1, GhostVersions(w, ii[w] + 1))
  /\ ii' = [ii EXCEPT ![w] = @ + 1]
  /\ UNCHANGED <<inputVars, block, run, swapVars>>
  /\ UNCHANGED <<cfg, grid, conn, loadBal, err, pc, numProcBlock, connL, chan,
                 sending, msgId, recvInto>>

\* end of the loop of the forward sweeps
ForwardSweepsDone(w) ==
  /\ pc[w] = "fwd"
  /\ ii[w] = Len(localBlocks[w])
  /\ pc' = [pc EXCEPT ![w] = "swap2"]
  /\ ii' = [ii EXCEPT ![w] = 0]
  /\ UNCHANGED <<inputVars, block, run, swapVars>>
  /\ UNCHANGED <<cfg, grid, conn, loadBal, err, numProcBlock, connL,
                 localBlocks, chan, sending, msgId, did, recvInto>>

\* backward sweep of one local block
LUSGS_Backward(w) ==
  /\ pc[w] = "bwd"
  /\ ii[w] < Len(localBlocks[w])
  /\ localBlocks' = [localBlocks EXCEPT ![w][ii[w] + 1].du = @ + 1]
  /\ did' = Noted(w, "bwd", ii[w] + 1, GhostVersions(w, ii[w] + 1))
  /\ ii' = [ii EXCEPT ![w] = @ + 1]
  /\ UNCHANGED <<inputVars, block, run, swapVars>>
  /\ UNCHANGED <<cfg, grid, conn, loadBal, err, pc, numProcBlock, connL, chan,
                 sending, msgId, recvInto>>

\* end of the loop of the backward sweeps: the sweep is over
BackwardSweepsDone(w) ==
  /\ pc[w] = "bwd"
  /\ ii[w] = Len(localBlocks[w])
  /\ pc' = [pc EXCEPT ![w] = "sweep"]
  /\ run' = [run EXCEPT ![w] = @ + 1]
  /\ ii' = [ii EXCEPT ![w] = 0]
  /\ UNCHANGED <<inputVars, block, swapVars>>
  /\ UNCHANGED <<cfg, grid, conn, loadBal, err, numProcBlock, connL,
                 localBlocks, chan, sending, msgId, did, recvInto>>

\* after the last sweep the blocks are updated and ImplicitUpdate returns
ImplicitUpdate(w) ==
  /\ pc[w] = "sweep"
  /\ run[w] = inputVars.sweeps
  /\ localBlocks' = [localBlocks EXCEPT ![w] =
                       [n \in 1..Len(@) |-> [@[n] EXCEPT !.updated = TRUE]]]
  /\ pc' = [pc EXCEPT ![w] = "returned"]
  /\ UNCHANGED <<inputVars, block, run, swapVars>>
  /\ UNCHANGED <<cfg, grid, conn, loadBal, err, ii, numProcBlock, connL, chan,
                 sending, msgId, did, recvInto>>

ImplicitStep(w) ==
  \/ StartSweep(w)
  \/ DuSwapSlice(w)
  \/ DuSwapSliceMPI(w)
  \/ DuPackSwapUnpackMPI(w)
  \/ DuSkipConnection(w)
  \/ SwapImplicitUpdate(w)
  \/ LUSGS_Forward(w)
  \/ ForwardSweepsDone(w)
  \/ LUSGS_Backward(w)
  \/ BackwardSweepsDone(w)
  \/ ImplicitUpdate(w)

NextImplicit == \E w \in Procs : ImplicitStep(w)

SpecImplicit == InitImplicit /\ [][NextImplicit]_vars

\* every worker goes on when it can
FairImplicit == SpecImplicit /\ \A w \in Procs : WF_vars(ImplicitStep(w))

\* worker w has noted operation op on record or block n in sweep s before
\* position p of its notes
NotedBefore(w, p, op, s, n) ==
  \E q \in 1..(p - 1) :
    did[w][q].op = op /\ did[w][q].sweep = s /\ did[w][q].n = n

\* number of times worker w has noted operation op on block n
TimesNoted(w, op, n) ==
  Cardinality({q \in DOMAIN did[w] : did[w][q].op = op /\ did[w][q].n = n})

\* C29: the implicit solve does exactly the configured number of sweeps and
\* then ends; in every sweep, on every worker, the exchange of the updates
\* over all records is through before the forward sweep of any local block
\* (which finds the partners' updates of the sweep before in its ghost
\* cells), all forward sweeps of the local blocks are done before the second
\* exchange, and that exchange is through before the backward sweep of any
\* local block.
C29_SweepsInOrder ==
  /\ [](\A w \in Procs : \A p \in DOMAIN did[w] :
          LET e == did[w][p]
          IN /\ e.sweep < inputVars.sweeps
             /\ e.op = "fwd" =>
                  /\ \A n \in 1..Len(connL[w]) : NotedBefore(w, p, "swap1", e.sweep, n)
                  /\ e.seen \subseteq {2 * e.sweep}
             /\ e.op = "swap2" =>
                  \A b \in 1..Len(localBlocks[w]) : NotedBefore(w, p, "fwd", e.sweep, b)
             /\ e.op = "bwd" =>
                  /\ \A n \in 1..Len(connL[w]) : NotedBefore(w, p, "swap2", e.sweep, n)
                  /\ e.seen \subseteq {2 * e.sweep + 1})
  /\ [](\A w \in Procs : pc[w] = "returned" =>
          \A b \in 1..Len(localBlocks[w]) :
            /\ TimesNoted(w, "fwd", b) = inputVars.sweeps
            /\ TimesNoted(w, "bwd", b) = inputVars.sweeps
            /\ localBlocks[w][b].du = 2 * inputVars.sweeps)
  /\ <>(\A w \in Procs : pc[w] = "returned")

\* two sweeps or more are done on every worker, one of which holds two
\* blocks and exchanges with another worker
C29_Witness ==
  /\ inputVars.sweeps >= 2
  /\ \A w \in Procs : pc[w] = "returned"
  /\ \E w \in Procs :
       /\ Len(localBlocks[w]) = 2
       /\ \A b \in 1..2 : localBlocks[w][b].updated
       /\ \E n \in 1..Len(connL[w]) :
            Route(connL[w][n], w) \in {"mpiFirst", "mpiSecond"}

\* ------------------------------------------------------------------------
\* Properties of the residual between the Runge-Kutta stages
\* ------------------------------------------------------------------------
\* ResetResidWS: residual and wave speed of every physical cell back to zero
ResetResidWS(b) ==
  [b EXCEPT !.residual = [c \in PhysCells(b.n) |-> ZeroArray],
            !.avgWaveSpeed = [c \in PhysCells(b.n) |-> 0]]

\* the block with the residual and the wave speed of the state that stage s
\* (from 1) left, and of nothing else
AssembledAfter(s) ==
  LET b == ResetResidWS([block EXCEPT !.state = run.stages[s].state])
  IN CalcInvFlux(CalcInvFlux(CalcInvFlux(b, 1), 2), 3)

\* C30: in the Runge-Kutta update the residual is assembled anew between
\* the stages: the residual (and the time step, which comes from the
\* spectral radius) that a stage after the first finds is that of the state
\* the stage before it left and holds nothing of the stages before that.
C30_ResidualOfStageAlone ==
  (inputVars.study = "update" /\ inputVars.timeIntegration = "rk4"
     /\ run.at = "done") =>
    \A s \in 2..4 :
      /\ run.stages[s].residual = AssembledAfter(s - 1).residual
      /\ run.stages[s].dt
           = CalcBlockTimeStep(AssembledAfter(s - 1), inputVars).block.dt

====
